---- MODULE Spec2Model ----
(***************************************************************************)
(* Model of the Bitcoin narrative generator's data pipeline:               *)
(*   data_fetcher.py   DataFetcher (rate limiter, retry wrapper, source    *)
(*                     adapters, derived metrics, fetch_all_data)          *)
(*   main.py           main (fetch, generate, save, exit status)           *)
(*   report_generator.py  the parts of ReportGenerator that decide whether *)
(*                     report generation raises                            *)
(*                                                                         *)
(* Conventions.                                                            *)
(*  - A Python value that may be None is a sequence of length 0 or 1:      *)
(*    None is << >>, the number v is <<v>>.                                *)
(*  - A Python dict is a function; a key the dict lacks is outside its     *)
(*    DOMAIN.  The empty dict {} is the function with the empty domain.    *)
(*  - An upstream answer is a record [status, body, h, secs]: status 0     *)
(*    stands for a requests.RequestException raised by session.get         *)
(*    (timeout, connection error); body "ok" is the payload the adapter    *)
(*    expects, "null" a JSON object that lacks the members the adapter     *)
(*    reads, "bad" a payload of the wrong shape (a JSON value that is not  *)
(*    an object, or a text that is not a number); h is the number a        *)
(*    block-height endpoint answers; secs the time the request took.       *)
(*  - Time is kept relative: elapsed = now - _last_request_time and        *)
(*    gap = now - (time the last request was issued), both capped at       *)
(*    API_DELAY_SECONDS, the only value they are ever compared with.       *)
(***************************************************************************)
EXTENDS Integers, Sequences, FiniteSets, TLC

\* ------------------------------------------------------------------ bounds
\* Upstream calls of one run whose answer deviates from the nominal answer.
MaxDeviations == 1
\* Duration of a request that answers promptly, and of one that is slow.
FastRequest == 1
SlowRequest == 10
\* Points a price-history endpoint returns at most.
HistoryPoints == 8

\* ------------------------------------------------- constants of the program
API_DELAY_SECONDS == 8
max_retries == 3
RATE_LIMIT_BACKOFF == 15
EXCEPTION_BACKOFF == 5
HALVING_INTERVAL == 210000
INITIAL_REWARD == 50
max_supply == 21000000
DEFAULT_CIRCULATING == 19900000
SATS_PER_BTC == 100000000
news_limit == 5
years_back == 3
MAX_HISTORICAL_ENTRIES == 15

\* ------------------------------------------------------------------ values
None == << >>
Some(v) == <<v>>
IsNone(x) == x = << >>
Val(x) == x[1]
\* Python truthiness of an optional number: None and 0 are falsy.
Truthy(x) == x # << >> /\ x[1] # 0
EmptyDict == [k \in {} |-> None]
\* dict.get(key, default)
Get(d, k, default) == IF k \in DOMAIN d THEN d[k] ELSE default
\* A dict with the given keys, all bound to v.
Fields(keys, v) == [k \in keys |-> v]
Min(a, b) == IF a < b THEN a ELSE b
Max(a, b) == IF a > b THEN a ELSE b
\* An exact quotient n/d, kept as a pair (Python computes it as a float).
Ratio(n, d) == [n |-> n, d |-> d]
RECURSIVE Pow2(_)
Pow2(k) == IF k = 0 THEN 1 ELSE 2 * Pow2(k - 1)

\* ------------------------------------------------------- upstream answers
\* Heights a block-height endpoint may answer (epoch boundaries included).
NominalHeight == 893760
Heights == {0, 1, 209999, 210000, 420000, 839999, 840000, NominalHeight, 1049999}

NoDate == <<0, 0, 0>>

\* The answer every upstream gives when nothing goes wrong.
Nominal == [status |-> 200, body |-> "ok", h |-> NominalHeight, secs |-> FastRequest]
\* Endpoints that answer a bare number as text.
HeightSites == {"mempool/blocks/tip/height", "blockchain/q/getblockcount"}
\* The endpoint of the primary price adapter.
PriceSite == "coingecko/coins/bitcoin"

\* The endpoints requested through _request_with_retry.
RetrySites == {"coingecko/coins/bitcoin", "coingecko/market_chart?days=200",
               "coingecko/market_chart?days=90", "coingecko/market_chart?days=30",
               "coingecko/market_chart?days=7"}
\* A request that times out, and a response with an error status.
Timeout == [Nominal EXCEPT !.status = 0, !.body = "null", !.secs = SlowRequest]
ErrorStatus(s) == [Nominal EXCEPT !.status = s, !.body = "null"]

\* Every answer the upstream of a call site can give.  The rate-limit status
\* 429 is given to the calls that treat it apart from the other error
\* statuses, the calls made through the retry wrapper.
Answers(site) ==
    {Nominal, Timeout, ErrorStatus(500)}
    \cup (IF site \in RetrySites THEN {ErrorStatus(429)} ELSE {})
    \cup {[Nominal EXCEPT !.body = b] : b \in {"null", "bad"}}
    \cup (IF site \in HeightSites THEN {[Nominal EXCEPT !.h = x] : x \in Heights} ELSE {})
    \cup (IF site = PriceSite
          THEN {[Nominal EXCEPT !.body = b] : b \in {"no_price", "no_supply"}} ELSE {})

\* ---------------------------------------------------------------- state
VARIABLES
    scope,      \* "main": main runs; "call": one adapter is called on its own
    args,       \* command line of main: [fast, use_ai]; the arguments of a
                \* function called on its own
    today,      \* datetime.now() as <<year, month, day>>, NoDate until it is read
    phase,      \* "fetch", then "check", "generate", "save", "exit" in main;
                \* "returned" after an adapter called on its own; "called"
                \* then "returned" for a function called on its own
    step,       \* position of fetch_all_data: index of the step being run
    sub,        \* position inside the adapter: number of the upstream call
    attempt,    \* loop variable of _request_with_retry
    stats,      \* the record the running adapter has built so far
    data,       \* results of the steps fetch_all_data has finished; the value
                \* a function called on its own returned
    clock,      \* [elapsed, gap, limited]: the rate limiter's view of time
    log,        \* every outbound request, in order
    steps,      \* every step fetch_all_data has invoked, in order; the calls
                \* made when a function is called on its own
    devs,       \* upstream calls that have deviated from Nominal so far
    raised,     \* the function an exception escaped from ("" if none)
    exit_code,  \* -1 while running, then the status main exits with
    report,     \* "none", "generated", "saved"
    random_state \* the state of the generator of the random module

vars == <<scope, args, today, phase, step, sub, attempt, stats, data, clock, log,
          steps, devs, raised, exit_code, report, random_state>>

\* ------------------------------------------------------------ rate limiter
Cap(t) == Min(t, API_DELAY_SECONDS)

\* time.sleep(n)
Sleep(c, n) == [c EXCEPT !.elapsed = Cap(@ + n), !.gap = Cap(@ + n)]

\* DataFetcher._rate_limit: sleep until API_DELAY_SECONDS have passed since
\* _last_request_time, then set _last_request_time to now.
_rate_limit(c) ==
    LET wait == IF c.elapsed < API_DELAY_SECONDS
                THEN API_DELAY_SECONDS - c.elapsed ELSE 0
    IN  [Sleep(c, wait) EXCEPT !.elapsed = 0, !.limited = TRUE]

\* session.get: the request leaves now and its answer arrives secs later.
SessionGet(c, secs) == [elapsed |-> Cap(c.elapsed + secs), gap |-> Cap(secs),
                        limited |-> FALSE]

\* The log entry of a request issued at clock c: the call site, the key of
\* the step that issued it, the attempt, the status answered (0: the request
\* raised), the payload, whether _rate_limit() was called since the request
\* before, whether API_DELAY_SECONDS have passed since the request before,
\* how the caller took the answer, and what it slept afterwards.
Entry(site, cat, c, ans, n, slept, end) ==
    [site |-> site, cat |-> cat, attempt |-> n, status |-> ans.status,
     body |-> ans.body,
     limited |-> c.limited, spaced |-> c.gap >= API_DELAY_SECONDS,
     end |-> end, sleep |-> slept]

\* ---------------------------------------------------------- retry wrapper
\* One iteration of the loop of DataFetcher._request_with_retry: what it
\* sleeps after the answer and how the iteration ends:
\*   "retry"     continue with the next attempt
\*   "none"      the loop is exhausted, the wrapper returns None
\*   "raise"     the RequestException of this attempt is re-raised
\*   "response"  the wrapper returns this response
\* A 429 branch that sleeps the same time after every attempt.
RateLimited_flat(n) ==
    [sleep |-> RATE_LIMIT_BACKOFF,
     end |-> IF n + 1 < max_retries THEN "retry" ELSE "none"]
\* "if response.status_code == 429": wait_time = (attempt + 1) * 15, sleep,
\* continue; after the last iteration the loop ends and None is returned.
RateLimited(n) ==
    [sleep |-> (n + 1) * RATE_LIMIT_BACKOFF,
     end |-> IF n + 1 < max_retries THEN "retry" ELSE "none"]

\* An exception branch that re-raises the first exception.
RequestException_noretry(n) == [sleep |-> 0, end |-> "raise"]
\* "except requests.RequestException": sleep 5 and go round again when
\* attempt < max_retries - 1, re-raise otherwise.
RequestException(n) ==
    IF n < max_retries - 1
    THEN [sleep |-> EXCEPTION_BACKOFF, end |-> "retry"]
    ELSE [sleep |-> 0, end |-> "raise"]

\* A wrapper that treats every error status as it treats 429.
_request_with_retry_errors(n, ans) ==
    IF ans.status = 0 THEN RequestException(n)
    ELSE IF ans.status >= 400 THEN RateLimited(n)
    ELSE [sleep |-> 0, end |-> "response"]
_request_with_retry(n, ans) ==
    IF ans.status = 0 THEN RequestException(n)
    ELSE IF ans.status = 429 THEN RateLimited(n)
    ELSE [sleep |-> 0, end |-> "response"]

\* ------------------------------------------------------- derived metrics
\* sum(q[lo - 1 : hi]), by halves, and sum(q)
RECURSIVE SumRange(_, _, _)
SumRange(q, lo, hi) ==
    IF lo > hi THEN 0
    ELSE IF lo = hi THEN q[lo]
    ELSE LET mid == (lo + hi) \div 2
         IN  SumRange(q, lo, mid) + SumRange(q, mid + 1, hi)
SumSeq(q) == SumRange(q, 1, Len(q))
\* max(q) and min(q) of a non-empty q, by halves
RECURSIVE MaxRange(_, _, _)
MaxRange(q, lo, hi) ==
    IF lo = hi THEN q[lo]
    ELSE LET mid == (lo + hi) \div 2
         IN  Max(MaxRange(q, lo, mid), MaxRange(q, mid + 1, hi))
MaxSeq(q) == MaxRange(q, 1, Len(q))
RECURSIVE MinRange(_, _, _)
MinRange(q, lo, hi) ==
    IF lo = hi THEN q[lo]
    ELSE LET mid == (lo + hi) \div 2
         IN  Min(MinRange(q, lo, mid), MinRange(q, mid + 1, hi))
MinSeq(q) == MinRange(q, 1, Len(q))
\* q[-k:], the last k elements of q (all of q when it has fewer)
LastN(q, k) == SubSeq(q, Max(1, Len(q) - k + 1), Len(q))

SMA_PERIODS == {7, 20, 50, 200}
SmaKey(p) == CASE p = 7 -> "sma_7" [] p = 20 -> "sma_20"
               [] p = 50 -> "sma_50" [] p = 200 -> "sma_200"
SmaCurrentKey(p) == CASE p = 7 -> "sma_7_current" [] p = 20 -> "sma_20_current"
                      [] p = 50 -> "sma_50_current" [] p = 200 -> "sma_200_current"
PriceVsKey(p) == CASE p = 7 -> "price_vs_sma_7" [] p = 20 -> "price_vs_sma_20"
                   [] p = 50 -> "price_vs_sma_50" [] p = 200 -> "price_vs_sma_200"

\* A list whose windows all start at the first price.
SmaSeries_anchored(prices, p) ==
    IF Len(prices) >= p
    THEN [j \in 1..(Len(prices) - p + 1) |-> Ratio(SumSeq(SubSeq(prices, 1, p)), p)]
    ELSE << >>
\* The list ma_values of one period: for i in range(period - 1, len(prices))
\* the mean of prices[i - period + 1 : i + 1], as the exact quotient sum/period.
SmaSeries(prices, p) ==
    IF Len(prices) >= p
    THEN [j \in 1..(Len(prices) - p + 1) |->
              Ratio(SumSeq(SubSeq(prices, j, j + p - 1)), p)]
    ELSE << >>

\* A current value that averages the points there are when the series is
\* shorter than the period.
SmaCurrent_short(prices, p) ==
    IF prices # << >>
    THEN Some(Ratio(SumSeq(LastN(prices, p)), Min(p, Len(prices))))
    ELSE None
\* sma_<p>_current: ma_values[-1], or None when the series is too short
SmaCurrent(prices, p) ==
    LET ma == SmaSeries(prices, p)
    IN  IF ma # << >> THEN Some(ma[Len(ma)]) ELSE None

\* DataFetcher._calculate_moving_averages.  The result maps sma_<p> to the
\* list, sma_<p>_current to the optional last mean, and, when prices is not
\* empty, current_price to the last price and price_vs_sma_<p> to
\* (last - ma) / ma * 100 for every p whose current mean is truthy.
_calculate_moving_averages(prices) ==
    LET cur(p) == SmaCurrent(prices, p)
        last == prices[Len(prices)]
        shown == {p \in SMA_PERIODS :
                     prices # << >> /\ cur(p) # None /\ Val(cur(p)).n # 0}
        lists == [k \in {SmaKey(p) : p \in SMA_PERIODS} |->
                     SmaSeries(prices, CHOOSE p \in SMA_PERIODS : SmaKey(p) = k)]
        currents == [k \in {SmaCurrentKey(p) : p \in SMA_PERIODS} |->
                     cur(CHOOSE p \in SMA_PERIODS : SmaCurrentKey(p) = k)]
        versus == [k \in {PriceVsKey(p) : p \in shown} |->
                     LET p == CHOOSE x \in shown : PriceVsKey(x) = k
                         ma == Val(cur(p))
                     IN  Ratio((last * ma.d - ma.n) * 100, ma.n)]
        price == IF prices # << >> THEN [k \in {"current_price"} |-> last]
                 ELSE EmptyDict
    IN  [lists |-> lists, currents |-> currents, versus |-> versus, price |-> price]

\* ----------------------------------------------------------- the assembler
\* The steps of DataFetcher.fetch_all_data in the order of its statements:
\* the method called, its days argument and the key of the result.
StepOf(fn, days, cat) == [fn |-> fn, days |-> days, cat |-> cat]
LiveSteps == <<
    StepOf("fetch_bitcoin_data", 0, "bitcoin"),
    StepOf("fetch_price_history", 200, "price_history_200d"),
    StepOf("fetch_price_history", 90, "price_history_90d"),
    StepOf("fetch_price_history", 30, "price_history_30d"),
    StepOf("fetch_price_history", 7, "price_history_7d"),
    StepOf("fetch_fear_greed_index", 0, "fear_greed"),
    StepOf("fetch_blockchain_stats", 0, "blockchain"),
    StepOf("fetch_block_stats", 0, "block_stats"),
    StepOf("fetch_network_stats", 0, "network_stats"),
    StepOf("fetch_address_stats", 0, "address_stats"),
    StepOf("calculate_supply_stats", 0, "supply_stats"),
    StepOf("fetch_onchain_analytics", 0, "onchain_analytics"),
    StepOf("fetch_market_trading_data", 0, "market_data"),
    StepOf("fetch_hash_rate_history", 30, "hash_rate_history"),
    StepOf("fetch_active_addresses_history", 30, "active_addresses_history"),
    StepOf("fetch_bitcoin_news", 0, "bitcoin_news") >>
HistoricalSteps == <<
    StepOf("fetch_historical_prices_on_this_day", 0, "historical_on_this_day"),
    StepOf("fetch_historical_year_price_data", 30, "historical_yearly_data") >>

\* An assembler that runs the historical steps whatever the flag says.
fetch_all_data_always(include_historical) == LiveSteps \o HistoricalSteps
\* fetch_all_data(include_historical): the steps it runs
fetch_all_data(include_historical) ==
    IF include_historical THEN LiveSteps \o HistoricalSteps ELSE LiveSteps

include_historical == ~args.fast
Plan == fetch_all_data(include_historical)
Cur == Plan[step]
Running(fn) == phase = "fetch" /\ Cur.fn = fn

\* The values of historical_prices and historical_yearly_data when the
\* historical steps are skipped.
SkippedHistorical ==
    IF include_historical THEN EmptyDict
    ELSE ("historical_on_this_day" :> << >>) @@ ("historical_yearly_data" :> << >>)

\* The running step returns rec: fetch_all_data binds it and goes on to its
\* next statement, or returns the snapshot to main after the last one.
Finish(rec) ==
    /\ sub' = 1 /\ attempt' = 0 /\ stats' = EmptyDict
    /\ UNCHANGED <<raised, exit_code, report>>
    /\ IF scope = "call"
       THEN /\ data' = (Cur.cat :> rec) @@ data
            /\ phase' = "returned"
            /\ UNCHANGED <<step, steps>>
       ELSE IF step < Len(Plan)
       THEN /\ data' = (Cur.cat :> rec) @@ data
            /\ step' = step + 1
            /\ steps' = Append(steps, Plan[step + 1])
            /\ phase' = "fetch"
       ELSE /\ data' = (Cur.cat :> rec) @@ data @@ SkippedHistorical
            /\ phase' = "check"
            /\ UNCHANGED <<step, steps>>

\* The running adapter keeps rec and goes on to its upstream call n.
ContinueAt(rec, n) ==
    /\ sub' = n /\ stats' = rec
    /\ UNCHANGED <<phase, step, steps, attempt, data, raised, exit_code, report>>
\* The running adapter keeps rec and goes on to its next upstream call.
Continue(rec) == ContinueAt(rec, sub + 1)

\* An exception escapes the running step: nothing in fetch_all_data catches
\* it, main's "except Exception" prints it and calls sys.exit(1).
Escape ==
    /\ raised' = Cur.fn
    /\ IF scope = "call"
       THEN phase' = "returned" /\ exit_code' = exit_code
       ELSE phase' = "exit" /\ exit_code' = 1
    /\ UNCHANGED <<step, steps, sub, attempt, stats, data, report>>

\* One outbound request of the running adapter, preceded by _rate_limit()
\* when limited: it is logged, time passes, and an answer other than Nominal
\* counts as a deviation.  A run of main sees at most MaxDeviations of them,
\* an adapter called on its own any number.
Request(site, limited, ans, slept, end) ==
    LET c == IF limited THEN _rate_limit(clock) ELSE clock
    IN  /\ ans \in Answers(site)
        /\ devs' = IF ans # Nominal THEN devs + 1 ELSE devs
        /\ scope = "main" => devs' <= MaxDeviations
        /\ log' = Append(log, Entry(site, Cur.cat, c, ans, attempt, slept, end))
        /\ clock' = Sleep(SessionGet(c, ans.secs), slept)
        /\ UNCHANGED <<scope, args>>

\* How an adapter that tests "response.status_code == 200" inside
\* "try ... except requests.RequestException" treats an answer:
\*   "skip"   exception caught or status other than 200: nothing is stored
\*   "raise"  the payload has the wrong shape: int() or .get raises an
\*            exception that is not a RequestException
\*   "parse"  the payload is read
IfStatus200(ans) ==
    IF ans.status = 0 THEN "skip"
    ELSE IF ans.status # 200 THEN "skip"
    ELSE IF ans.body = "bad" THEN "raise" ELSE "parse"

\* The same for an adapter that calls response.raise_for_status(), which
\* raises HTTPError (a RequestException) for a status of 400 and above.
RaiseForStatus(ans) ==
    IF ans.status = 0 THEN "skip"
    ELSE IF ans.status >= 400 THEN "skip"
    ELSE IF ans.body = "bad" THEN "raise" ELSE "parse"

\* --------------------------------------------------- price adapters (retry)
\* The wrapper goes round its loop once more.
Retry ==
    /\ attempt' = attempt + 1
    /\ UNCHANGED <<phase, step, steps, sub, stats, data, raised, exit_code, report>>

\* The record fetch_bitcoin_data builds from a 200 response: every key is
\* present, bound to None where the response lacks the member.
PRICE_KEYS == {"price_usd", "market_cap_usd", "volume_24h_usd",
               "price_change_24h_percent", "price_change_7d_percent",
               "price_change_30d_percent", "ath_usd", "ath_date",
               "ath_change_percent", "circulating_supply", "total_supply",
               "last_updated"}
NominalPriceRecord ==
    [price_usd |-> Some(95000), market_cap_usd |-> Some(1900),
     volume_24h_usd |-> Some(45), price_change_24h_percent |-> Some(2),
     price_change_7d_percent |-> Some(5), price_change_30d_percent |-> Some(10),
     ath_usd |-> Some(109000), ath_date |-> Some(20250120),
     ath_change_percent |-> Some(13), circulating_supply |-> Some(19800000),
     total_supply |-> Some(19800000), last_updated |-> Some(1)]
PriceRecord(body) ==
    CASE body = "ok" -> NominalPriceRecord
      [] body = "no_price" -> [NominalPriceRecord EXCEPT !.price_usd = None]
      [] body = "no_supply" -> [NominalPriceRecord EXCEPT !.circulating_supply = None]
      [] OTHER -> Fields(PRICE_KEYS, None)

\* DataFetcher.fetch_bitcoin_data, one attempt of its request per step.
fetch_bitcoin_data ==
    /\ Running("fetch_bitcoin_data")
    /\ UNCHANGED <<today, random_state>>
    /\ \E ans \in Answers(PriceSite) :
         LET r == _request_with_retry(attempt, ans)
         IN  /\ Request(PriceSite, TRUE, ans, r.sleep, r.end)
             /\ CASE r.end = "retry" -> Retry
                  \* "if not response": the wrapper returned None
                  [] r.end = "none" -> Finish(EmptyDict)
                  \* "except requests.RequestException"
                  [] r.end = "raise" -> Finish(EmptyDict)
                  [] r.end = "response" ->
                        IF ans.status # 200 THEN Finish(EmptyDict)
                        ELSE IF ans.body = "bad" THEN Escape
                        ELSE Finish(PriceRecord(ans.body))

\* The series a market_chart response carries.
HistorySite(days) ==
    CASE days = 200 -> "coingecko/market_chart?days=200"
      [] days = 90 -> "coingecko/market_chart?days=90"
      [] days = 30 -> "coingecko/market_chart?days=30"
      [] days = 7 -> "coingecko/market_chart?days=7"
HistoryPrices(body, days) ==
    IF body = "ok" THEN [i \in 1..Min(days, HistoryPoints) |-> 90000 + 1000 * i]
    ELSE << >>
HistoryVolumes(body, days) ==
    IF body = "ok" THEN [i \in 1..Min(days, HistoryPoints) |-> 40 + i]
    ELSE << >>

\* The record fetch_price_history returns for the series of a 200 response.
HistoryRecord(days, prices, volumes) ==
    IF prices # << >>
    THEN [days |-> Some(days),
          price_high |-> Some(MaxSeq(prices)),
          price_low |-> Some(MinSeq(prices)),
          price_start |-> Some(prices[1]),
          price_end |-> Some(prices[Len(prices)]),
          avg_volume |-> IF volumes # << >>
                         THEN Some(Ratio(SumSeq(volumes), Len(volumes)))
                         ELSE None,
          price_data |-> LastN(prices, 7),
          full_price_data |-> prices,
          moving_averages |-> _calculate_moving_averages(prices)]
    ELSE EmptyDict

\* DataFetcher.fetch_price_history(days), one attempt of its request per step.
fetch_price_history ==
    /\ Running("fetch_price_history")
    /\ UNCHANGED <<today, random_state>>
    /\ \E ans \in Answers(HistorySite(Cur.days)) :
         LET r == _request_with_retry(attempt, ans)
         IN  /\ Request(HistorySite(Cur.days), TRUE, ans, r.sleep, r.end)
             /\ CASE r.end = "retry" -> Retry
                  [] r.end = "none" -> Finish(EmptyDict)
                  [] r.end = "raise" -> Finish(EmptyDict)
                  [] r.end = "response" ->
                        IF ans.status # 200 THEN Finish(EmptyDict)
                        ELSE IF ans.body = "bad" THEN Escape
                        ELSE Finish(HistoryRecord(Cur.days,
                                        HistoryPrices(ans.body, Cur.days),
                                        HistoryVolumes(ans.body, Cur.days)))

\* ------------------------------------------------------- sentiment adapter
FearGreedSite == "alternative.me/fng"
\* The entries of a fear-and-greed response, most recent first.
FearGreedEntries(body) ==
    IF body = "ok"
    THEN [i \in 1..7 |-> [value |-> 73 - i, classification |-> "Greed",
                          timestamp |-> 1762128000 - 86400 * i]]
    ELSE << >>
\* The record fetch_fear_greed_index returns for the entries of a response:
\* the classification passes through as the source gave it.
FearGreedRecord(entries) ==
    IF entries # << >>
    THEN [value |-> Some(entries[1].value),
          classification |-> entries[1].classification,
          timestamp |-> Some(entries[1].timestamp),
          history |-> [i \in 1..Min(7, Len(entries)) |->
                          [value |-> entries[i].value,
                           classification |-> entries[i].classification,
                           date |-> entries[i].timestamp \div 86400]]]
    ELSE EmptyDict

\* DataFetcher.fetch_fear_greed_index
fetch_fear_greed_index ==
    /\ Running("fetch_fear_greed_index")
    /\ UNCHANGED <<today, random_state>>
    /\ \E ans \in Answers(FearGreedSite) :
         /\ Request(FearGreedSite, TRUE, ans, 0, RaiseForStatus(ans))
         /\ CASE RaiseForStatus(ans) = "skip" -> Finish(EmptyDict)
              [] RaiseForStatus(ans) = "raise" -> Escape
              [] OTHER -> Finish(FearGreedRecord(FearGreedEntries(ans.body)))

\* ------------------------------------------------------------ chart series
\* The "values" of a chart response: n points, each an optional y.
ChartValues(body, n) ==
    IF body = "ok" THEN [i \in 1..n |-> Some(100 + i)] ELSE << >>
\* v.get("y", default)
GetY(v, default) == IF v = None THEN default ELSE Val(v)
\* sum(v.get("y", 0) for v in values)
RECURSIVE SumY(_)
SumY(values) ==
    IF values = << >> THEN 0 ELSE GetY(Head(values), 0) + SumY(Tail(values))
\* values[-1].get("y")
LastY(values) == values[Len(values)]
\* sum(v.get("y", 0) for v in values) / len(values)
MeanY(values) == Some(Ratio(SumY(values), Len(values)))

\* ---------------------------------------------------- on-chain chart stats
BlockchainStatsSite(n) ==
    CASE n = 1 -> "blockchain/charts/hash-rate"
      [] n = 2 -> "blockchain/charts/n-transactions"
      [] n = 3 -> "blockchain/charts/difficulty"
\* Points of the 30days and of the 60days timespan.
BlockchainStatsPoints(n) == IF n = 3 THEN 60 ELSE 30

\* The percent change of the last difficulty from values[-30]; the division
\* raises ZeroDivisionError when values[-30] has y = 0.
DifficultyRaises(values) ==
    Len(values) >= 30 /\ GetY(values[Len(values) - 29], 1) = 0
DifficultyChange(values) ==
    LET ref == GetY(values[Len(values) - 29], 1)
    IN  Ratio((GetY(LastY(values), 0) - ref) * 100, ref)

\* The keys call n of fetch_blockchain_stats adds for the values it read.
BlockchainStatsFields(n, values) ==
    IF values = << >> THEN EmptyDict
    ELSE CASE n = 1 -> [hash_rate_current |-> LastY(values),
                        hash_rate_30d_avg |-> MeanY(values)]
           [] n = 2 -> [tx_count_current |-> LastY(values),
                        tx_count_30d_avg |-> MeanY(values)]
           [] n = 3 -> IF Len(values) >= 30
                       THEN [difficulty_current |-> LastY(values),
                             difficulty_30d_change |-> Some(DifficultyChange(values))]
                       ELSE [difficulty_current |-> LastY(values)]

\* DataFetcher.fetch_blockchain_stats, one chart request per step.
fetch_blockchain_stats ==
    /\ Running("fetch_blockchain_stats")
    /\ UNCHANGED <<today, random_state>>
    /\ \E ans \in Answers(BlockchainStatsSite(sub)) :
         LET values == ChartValues(ans.body, BlockchainStatsPoints(sub))
             rec == IF RaiseForStatus(ans) = "parse"
                    THEN BlockchainStatsFields(sub, values) @@ stats ELSE stats
         IN  /\ Request(BlockchainStatsSite(sub), TRUE, ans, 0, RaiseForStatus(ans))
             /\ IF RaiseForStatus(ans) = "raise"
                   \/ (RaiseForStatus(ans) = "parse" /\ sub = 3 /\ DifficultyRaises(values))
                THEN Escape
                ELSE IF sub < 3 THEN Continue(rec) ELSE Finish(rec)

\* ------------------------------------------------------------- block stats
BlockStatsSite(n) ==
    CASE n = 1 -> "mempool/blocks/tip/height"
      [] n = 2 -> "blockchain/q/getblockcount"
      [] n = 3 -> "mempool/v1/fees/recommended"
      [] n = 4 -> "mempool/mempool"

\* How a block-height request ends: int(response.text) raises ValueError,
\* which no handler of fetch_block_stats catches, unless the text is a number.
HeightOutcome(ans) ==
    IF ans.status = 0 THEN "skip"
    ELSE IF ans.status # 200 THEN "skip"
    ELSE IF ans.body # "ok" THEN "raise" ELSE "parse"

\* "if stats.get('block_height')": the reward and halving keys derived from
\* the height; the estimate is kept as the number of days from now.
HalvingFields(rec) ==
    IF Truthy(Get(rec, "block_height", None))
    THEN LET height == Val(rec["block_height"])
             halvings == height \div HALVING_INTERVAL
             next_halving_block == (halvings + 1) * HALVING_INTERVAL
             blocks_until_halving == next_halving_block - height
         IN  [block_reward |-> Some(Ratio(INITIAL_REWARD, Pow2(halvings))),
              blocks_until_halving |-> Some(blocks_until_halving),
              next_halving_estimate |-> Some((blocks_until_halving * 10) \div 1440)]
    ELSE EmptyDict

\* The keys the fee request and the mempool request add.
FeeFields(body) ==
    IF body = "ok"
    THEN [fee_fastest |-> Some(12), fee_half_hour |-> Some(8),
          fee_hour |-> Some(5), fee_economy |-> Some(2)]
    ELSE Fields({"fee_fastest", "fee_half_hour", "fee_hour", "fee_economy"}, None)
MempoolFields(body) ==
    IF body = "ok"
    THEN [mempool_tx_count |-> Some(42000), mempool_size_bytes |-> Some(9000000)]
    ELSE Fields({"mempool_tx_count", "mempool_size_bytes"}, None)

\* Whether fetch_block_stats asks the secondary provider after the primary:
\* "if 'block_height' not in stats".
NeedsFallback(rec) == "block_height" \notin DOMAIN rec

\* DataFetcher.fetch_block_stats, one request per step: primary height,
\* secondary height when the primary gave none, fees, mempool.
fetch_block_stats ==
    /\ Running("fetch_block_stats")
    /\ UNCHANGED <<today, random_state>>
    /\ \E ans \in Answers(BlockStatsSite(sub)) :
         /\ Request(BlockStatsSite(sub), TRUE, ans, 0,
                    IF sub \in {1, 2} THEN HeightOutcome(ans) ELSE IfStatus200(ans))
         /\ CASE sub \in {1, 2} ->
                   LET rec == IF HeightOutcome(ans) = "parse"
                              THEN [block_height |-> Some(ans.h)] ELSE stats
                   IN  IF HeightOutcome(ans) = "raise" THEN Escape
                       ELSE IF sub = 1 /\ NeedsFallback(rec) THEN ContinueAt(rec, 2)
                       ELSE ContinueAt(HalvingFields(rec) @@ rec, 3)
              [] sub = 3 ->
                   IF IfStatus200(ans) = "raise" THEN Escape
                   ELSE IF IfStatus200(ans) = "parse"
                   THEN Continue(FeeFields(ans.body) @@ stats)
                   ELSE Continue(stats)
              [] sub = 4 ->
                   IF IfStatus200(ans) = "raise" THEN Escape
                   ELSE IF IfStatus200(ans) = "parse"
                   THEN Finish(MempoolFields(ans.body) @@ stats)
                   ELSE Finish(stats)

\* ----------------------------------------------------------- network stats
NetworkStatsSite(n) ==
    CASE n = 1 -> "blockchain/stats"
      [] n = 2 -> "blockchain/charts/transaction-fees-usd"
      [] n = 3 -> "blockchain/charts/avg-block-size"
NetworkStatsFields(n, body) ==
    CASE n = 1 -> IF body = "ok"
                  THEN [total_btc_sent |-> Some(500000), n_btc_mined |-> Some(450),
                        minutes_between_blocks |-> Some(10),
                        n_blocks_total |-> Some(NominalHeight)]
                  ELSE Fields({"total_btc_sent", "n_btc_mined",
                               "minutes_between_blocks", "n_blocks_total"}, None)
      [] n = 2 -> IF ChartValues(body, 7) # << >>
                  THEN [avg_tx_fee_usd_7d |-> MeanY(ChartValues(body, 7))]
                  ELSE EmptyDict
      [] n = 3 -> IF ChartValues(body, 7) # << >>
                  THEN [avg_block_size_7d |-> MeanY(ChartValues(body, 7))]
                  ELSE EmptyDict

\* DataFetcher.fetch_network_stats, one request per step.
fetch_network_stats ==
    /\ Running("fetch_network_stats")
    /\ UNCHANGED <<today, random_state>>
    /\ \E ans \in Answers(NetworkStatsSite(sub)) :
         LET rec == IF IfStatus200(ans) = "parse"
                    THEN NetworkStatsFields(sub, ans.body) @@ stats ELSE stats
         IN  /\ Request(NetworkStatsSite(sub), TRUE, ans, 0, IfStatus200(ans))
             /\ IF IfStatus200(ans) = "raise" THEN Escape
                ELSE IF sub < 3 THEN Continue(rec) ELSE Finish(rec)

\* ----------------------------------------------------------- address stats
AddressStatsSite == "blockchair/stats"
ADDRESS_KEYS == {"utxo_count", "nodes", "hodling_addresses", "market_dominance",
                 "mempool_count_backup", "best_block_height"}
AddressStatsFields(body) ==
    IF body = "ok"
    THEN [utxo_count |-> Some(180000000), nodes |-> Some(18000),
          hodling_addresses |-> Some(50000000), market_dominance |-> Some(57),
          mempool_count_backup |-> Some(42000),
          best_block_height |-> Some(NominalHeight)]
    ELSE Fields(ADDRESS_KEYS, None)

\* DataFetcher.fetch_address_stats
fetch_address_stats ==
    /\ Running("fetch_address_stats")
    /\ UNCHANGED <<today, random_state>>
    /\ \E ans \in Answers(AddressStatsSite) :
         /\ Request(AddressStatsSite, TRUE, ans, 0, IfStatus200(ans))
         /\ CASE IfStatus200(ans) = "raise" -> Escape
              [] IfStatus200(ans) = "parse" -> Finish(AddressStatsFields(ans.body))
              [] OTHER -> Finish(EmptyDict)

\* ------------------------------------------------------------ supply stats
\* bitcoin_data.get("circulating_supply", 19_900_000) and
\* bitcoin_data.get("price_usd", 0): the default applies only to a record
\* that lacks the key, a key bound to None yields None.
SupplyCirculating(bitcoin_data) ==
    Get(bitcoin_data, "circulating_supply", Some(DEFAULT_CIRCULATING))
SupplyPrice(bitcoin_data) == Get(bitcoin_data, "price_usd", Some(0))

\* Whether calculate_supply_stats raises TypeError: "max_supply - circulating"
\* with circulating None, or "price > 0" with price None.
SupplyRaises(bitcoin_data) ==
    SupplyCirculating(bitcoin_data) = None \/ SupplyPrice(bitcoin_data) = None

\* DataFetcher.calculate_supply_stats, where it does not raise.
SupplyStats(bitcoin_data, block_stats) ==
    LET circulating == Val(SupplyCirculating(bitcoin_data))
        price == Val(SupplyPrice(bitcoin_data))
        block_reward == Val(Get(block_stats, "block_reward", Some(Ratio(25, 8))))
        sats_per_dollar == SATS_PER_BTC \div price
        sats == IF price > 0
                THEN [sats_per_dollar |-> Some(sats_per_dollar),
                      sats_per_cent |-> Some(Ratio(sats_per_dollar, 100))]
                ELSE EmptyDict
    IN  [circulating_supply |-> Some(circulating),
         remaining_to_mine |-> Some(max_supply - circulating),
         percent_mined |-> Some(Ratio(circulating * 100, max_supply)),
         block_reward_btc |-> Some(block_reward),
         block_reward_usd |-> IF price # 0
                              THEN Some(Ratio(block_reward.n * price, block_reward.d))
                              ELSE Some(Ratio(0, 1))] @@ sats

\* The step of fetch_all_data that calls calculate_supply_stats with the
\* price record and the block record of this run.
calculate_supply_stats ==
    /\ Running("calculate_supply_stats")
    /\ UNCHANGED <<scope, args, today, clock, log, devs, random_state>>
    /\ IF SupplyRaises(data["bitcoin"]) THEN Escape
       ELSE Finish(SupplyStats(data["bitcoin"], data["block_stats"]))

\* ------------------------------------------------------- on-chain analytics
OnchainSite(n) ==
    CASE n = 1 -> "blockchain/charts/n-unique-addresses?analytics"
      [] n = 2 -> "blockchain/charts/my-wallet-n-users"
      [] n = 3 -> "blockchain/charts/estimated-transaction-volume-usd"
      [] n = 4 -> "blockchair/transactions"
\* output_total of the ten largest transactions, in BTC.
WHALE_THRESHOLD == 100
LargestTransactions(body) ==
    IF body = "ok" THEN <<900, 450, 120, 100, 80, 60, 40, 30, 20, 10>> ELSE << >>

\* The keys call n of fetch_onchain_analytics adds for the payload it read.
\* The 7-day average divides the sum of values[-7:] by 7.
ActiveAddressFields(values) ==
    IF values = << >> THEN EmptyDict
    ELSE [active_addresses_today |-> LastY(values),
          active_addresses_7d_avg |-> Some(Ratio(SumY(LastN(values, 7)), 7)),
          active_addresses_30d_avg |-> MeanY(values)]
OnchainFields(n, body) ==
    CASE n = 1 -> ActiveAddressFields(ChartValues(body, 30))
      [] n = 2 -> IF ChartValues(body, 30) # << >>
                  THEN [new_addresses_today |-> LastY(ChartValues(body, 30))]
                  ELSE EmptyDict
      [] n = 3 -> IF ChartValues(body, 7) # << >>
                  THEN [tx_volume_usd_today |-> LastY(ChartValues(body, 7)),
                        tx_volume_usd_7d_avg |-> MeanY(ChartValues(body, 7))]
                  ELSE EmptyDict
      [] n = 4 -> LET txs == LargestTransactions(body)
                  IN  IF txs # << >>
                      THEN [whale_transactions_recent |->
                              Some(Cardinality({i \in 1..Len(txs) :
                                                  txs[i] > WHALE_THRESHOLD}))]
                      ELSE EmptyDict

\* DataFetcher.fetch_onchain_analytics, one request per step.
fetch_onchain_analytics ==
    /\ Running("fetch_onchain_analytics")
    /\ UNCHANGED <<today, random_state>>
    /\ \E ans \in Answers(OnchainSite(sub)) :
         LET rec == IF IfStatus200(ans) = "parse"
                    THEN OnchainFields(sub, ans.body) @@ stats ELSE stats
         IN  /\ Request(OnchainSite(sub), TRUE, ans, 0, IfStatus200(ans))
             /\ IF IfStatus200(ans) = "raise" THEN Escape
                ELSE IF sub < 4 THEN Continue(rec) ELSE Finish(rec)

\* ------------------------------------------------------ market/trading data
MarketSite(n) ==
    CASE n = 1 -> "coingecko/global"
      [] n = 2 -> "coinglass/open_interest"
      [] n = 3 -> "coinglass/funding"
      [] n = 4 -> "coinglass/liquidation_history"
      [] n = 5 -> "blockchair/stats?fee"
\* The keys call n of fetch_market_trading_data adds for the payload it read.
MarketFields(n, body) ==
    CASE n = 1 -> IF body = "ok"
                  THEN [btc_dominance |-> Some(57),
                        total_crypto_market_cap |-> Some(3300),
                        total_24h_volume |-> Some(120),
                        active_cryptocurrencies |-> Some(17000)]
                  ELSE Fields({"btc_dominance", "total_crypto_market_cap",
                               "total_24h_volume", "active_cryptocurrencies"}, None)
      [] n = 2 -> IF body = "ok"
                  THEN [open_interest_usd |-> Some(60),
                        open_interest_24h_change |-> Some(1)]
                  ELSE EmptyDict
      [] n = 3 -> LET rates == IF body = "ok" THEN <<1, 2, 3>> ELSE << >>
                  IN  IF rates # << >>
                      THEN [funding_rate_avg |-> Some(Ratio(SumSeq(rates), Len(rates)))]
                      ELSE EmptyDict
      [] n = 4 -> IF body = "ok"
                  THEN [liquidations_24h_long |-> Some(70),
                        liquidations_24h_short |-> Some(30),
                        liquidations_24h_total |-> Some(70 + 30)]
                  ELSE EmptyDict
      [] n = 5 -> IF body = "ok" THEN [suggested_fee |-> Some(3)]
                  ELSE [suggested_fee |-> None]

\* DataFetcher.fetch_market_trading_data, one request per step.
fetch_market_trading_data ==
    /\ Running("fetch_market_trading_data")
    /\ UNCHANGED <<today, random_state>>
    /\ \E ans \in Answers(MarketSite(sub)) :
         LET rec == IF IfStatus200(ans) = "parse"
                    THEN MarketFields(sub, ans.body) @@ stats ELSE stats
         IN  /\ Request(MarketSite(sub), TRUE, ans, 0, IfStatus200(ans))
             /\ IF IfStatus200(ans) = "raise" THEN Escape
                ELSE IF sub < 5 THEN Continue(rec) ELSE Finish(rec)

\* ------------------------------------------------------ chart history series
\* The record fetch_hash_rate_history and fetch_active_addresses_history
\* return for the values of a chart response.
ChartHistoryRecord(values) ==
    IF values = << >> THEN EmptyDict
    ELSE LET ys == [i \in 1..Len(values) |-> GetY(values[i], 0)]
         IN  [data |-> ys,
              current |-> LastY(values),
              average |-> MeanY(values),
              high |-> Some(MaxSeq(ys)),
              low |-> Some(MinSeq(ys))]

HashRateHistorySite == "blockchain/charts/hash-rate?history"
\* DataFetcher.fetch_hash_rate_history(days)
fetch_hash_rate_history ==
    /\ Running("fetch_hash_rate_history")
    /\ UNCHANGED <<today, random_state>>
    /\ \E ans \in Answers(HashRateHistorySite) :
         /\ Request(HashRateHistorySite, TRUE, ans, 0, IfStatus200(ans))
         /\ CASE IfStatus200(ans) = "raise" -> Escape
              [] IfStatus200(ans) = "parse" ->
                    Finish(ChartHistoryRecord(ChartValues(ans.body, Cur.days)))
              [] OTHER -> Finish(EmptyDict)

ActiveAddressesHistorySite == "blockchain/charts/n-unique-addresses?history"
\* DataFetcher.fetch_active_addresses_history(days)
fetch_active_addresses_history ==
    /\ Running("fetch_active_addresses_history")
    /\ UNCHANGED <<today, random_state>>
    /\ \E ans \in Answers(ActiveAddressesHistorySite) :
         /\ Request(ActiveAddressesHistorySite, TRUE, ans, 0, IfStatus200(ans))
         /\ CASE IfStatus200(ans) = "raise" -> Escape
              [] IfStatus200(ans) = "parse" ->
                    Finish(ChartHistoryRecord(ChartValues(ans.body, Cur.days)))
              [] OTHER -> Finish(EmptyDict)

\* -------------------------------------------------------------------- news
NewsSite == "rss2json/cointelegraph"
\* The items of the feed: an identifier for the title and whether the title
\* contains one of btc_keywords.
NewsItem(id, matches) == [title |-> id, matches |-> matches]
NominalFeed == <<NewsItem(1, TRUE), NewsItem(2, FALSE), NewsItem(3, TRUE),
                 NewsItem(4, TRUE), NewsItem(5, FALSE), NewsItem(6, TRUE),
                 NewsItem(7, TRUE), NewsItem(8, TRUE)>>
FeedItems(body) == IF body = "ok" THEN NominalFeed ELSE << >>

\* The loop of fetch_bitcoin_news over the items: an item is appended when
\* its title matches a keyword or fewer than limit items were appended so
\* far; the loop breaks once limit items are appended.
RECURSIVE NewsLoop(_, _, _)
NewsLoop(items, news_items, limit) ==
    IF items = << >> THEN news_items
    ELSE IF Head(items).matches \/ Len(news_items) < limit
         THEN LET appended == Append(news_items, Head(items))
              IN  IF Len(appended) >= limit THEN appended
                  ELSE NewsLoop(Tail(items), appended, limit)
         ELSE NewsLoop(Tail(items), news_items, limit)

\* DataFetcher.fetch_bitcoin_news(limit)
fetch_bitcoin_news ==
    /\ Running("fetch_bitcoin_news")
    /\ UNCHANGED <<today, random_state>>
    /\ \E ans \in Answers(NewsSite) :
         /\ Request(NewsSite, TRUE, ans, 0, IfStatus200(ans))
         /\ CASE IfStatus200(ans) = "raise" -> Escape
              [] IfStatus200(ans) = "parse" ->
                    Finish(NewsLoop(FeedItems(ans.body), << >>, news_limit))
              [] OTHER -> Finish(<< >>)

\* ---------------------------------------------------------------- calendar
IsLeap(y) == (y % 4 = 0 /\ y % 100 # 0) \/ y % 400 = 0
DaysIn(y, m) ==
    IF m = 2 THEN (IF IsLeap(y) THEN 29 ELSE 28)
    ELSE IF m \in {4, 6, 9, 11} THEN 30 ELSE 31
\* datetime(y, m, d) raises ValueError unless the day exists.
ValidDate(y, m, d) == m \in 1..12 /\ d \in 1..DaysIn(y, m)
RECURSIVE DayOfYear(_, _, _)
DayOfYear(y, m, d) == IF m = 1 THEN d ELSE DaysIn(y, m - 1) + DayOfYear(y, m - 1, d)
\* date - timedelta(days=k)
RECURSIVE DateMinus(_, _)
DateMinus(date, k) ==
    IF k = 0 THEN date
    ELSE LET y == date[1]  m == date[2]  d == date[3]
             prev == IF d > 1 THEN <<y, m, d - 1>>
                     ELSE IF m > 1 THEN <<y, m - 1, DaysIn(y, m - 1)>>
                     ELSE <<y - 1, 12, 31>>
         IN  DateMinus(prev, k - 1)

\* The n consecutive dates that end on date, the latest first.
RECURSIVE DatesBack(_, _)
DatesBack(date, n) ==
    IF n = 0 THEN << >>
    ELSE <<date>> \o DatesBack(DateMinus(date, 1), n - 1)

\* -------------------------------------------------- static historical table
\* Prices of the static table are kept in cents.
\* historical_db of _get_static_historical_data
KnownDates == {<<1, 30>>, <<1, 31>>, <<2, 1>>, <<2, 2>>}
STATIC_YEARS == 2011..2025
HistoricalDb(key) ==
    LET row(q) == [y \in STATIC_YEARS |-> q[2026 - y]]
    IN  CASE key = <<1, 30>> ->
               row(<<10400000, 4300000, 2310000, 3720000, 3250000, 935000, 345000,
                     1010000, 92000, 38000, 23000, 81000, 2000, 550, 32>>)
          [] key = <<1, 31>> ->
               row(<<10240000, 4258000, 2314000, 3848000, 3311000, 935000, 345000,
                     1020000, 96500, 37800, 22700, 80000, 2000, 550, 32>>)
          [] key = <<2, 1>> ->
               row(<<10130000, 4290000, 2372000, 3874000, 3353000, 938000, 346000,
                     995000, 97000, 37200, 23000, 77000, 2000, 525, 35>>)
          [] key = <<2, 2>> ->
               row(<<9980000, 4320000, 2347000, 3708000, 3550000, 940000, 348000,
                     887000, 100500, 37000, 22600, 82000, 2000, 530, 38>>)

\* monthly_multipliers, in hundredths; 1.0 for a month the table lacks
MonthlyMultiplier(month) ==
    CASE month = 1 -> 100 [] month = 2 -> 95 [] month = 3 -> 98
      [] month = 4 -> 105 [] month = 5 -> 102 [] month = 6 -> 92
      [] month = 7 -> 90 [] month = 8 -> 95 [] month = 9 -> 88
      [] month = 10 -> 100 [] month = 11 -> 115 [] month = 12 -> 110
      [] OTHER -> 100
\* The base-year prices of the generic formula, in dollars.
GenericBase(y) ==
    [k \in STATIC_YEARS |->
        <<100000, 45000, 25000, 35000, 40000, 9000, 3500, 9000, 1000, 450, 250,
          500, 100, 10, 5>>[2026 - k]][y]
\* int(base * mult) of the float product: the double nearest 1.15 lies below
\* 1.15, so the products that are whole in exact arithmetic and fall just
\* below the whole number as doubles are truncated one lower.
FloatProductBelow(base, month) ==
    month = 11 /\ base \in {100000, 45000, 25000, 3500, 100}
\* A product rounded to the nearest whole number.
IntOfProduct_rounded(base, month) ==
    (base * MonthlyMultiplier(month) + 50) \div 100
IntOfProduct(base, month) ==
    (base * MonthlyMultiplier(month)) \div 100
        - (IF FloatProductBelow(base, month) THEN 1 ELSE 0)

\* DataFetcher._get_static_historical_data(month, day): year -> price (cents)
_get_static_historical_data(month, day) ==
    IF <<month, day>> \in KnownDates THEN HistoricalDb(<<month, day>>)
    ELSE [y \in 2010..2025 |->
             IF y = 2010 THEN 10 ELSE IntOfProduct(GenericBase(y), month) * 100]

\* --------------------------------------------------- synthetic daily series
\* price_ranges of _get_static_yearly_price_history: (low, high) in dollars
RANGE_YEARS == 2020..2024
PriceRanges(year) ==
    CASE year = 2024 -> <<<<42000, 48000>>, <<42000, 52000>>, <<62000, 72000>>,
                          <<60000, 72000>>, <<58000, 70000>>, <<60000, 70000>>,
                          <<54000, 68000>>, <<54000, 65000>>, <<56000, 66000>>,
                          <<60000, 73000>>, <<68000, 99000>>, <<92000, 108000>>>>
      [] year = 2023 -> <<<<16500, 23500>>, <<21500, 25200>>, <<20000, 28500>>,
                          <<27000, 31000>>, <<26500, 29500>>, <<25000, 31500>>,
                          <<29000, 31500>>, <<26000, 30000>>, <<25000, 27500>>,
                          <<26500, 35000>>, <<34000, 38000>>, <<40000, 44000>>>>
      [] year = 2022 -> <<<<35000, 47500>>, <<37000, 45500>>, <<38000, 48000>>,
                          <<38000, 46500>>, <<28500, 40000>>, <<17500, 31500>>,
                          <<19000, 24500>>, <<20000, 25000>>, <<18500, 22500>>,
                          <<19000, 21000>>, <<15500, 21500>>, <<16500, 17500>>>>
      [] year = 2021 -> <<<<29000, 42000>>, <<32000, 58000>>, <<45000, 61500>>,
                          <<52000, 64500>>, <<35000, 59500>>, <<31500, 41000>>,
                          <<29500, 42000>>, <<38000, 50000>>, <<41000, 52500>>,
                          <<43500, 67000>>, <<57000, 69000>>, <<42000, 57500>>>>
      [] year = 2020 -> <<<<6900, 9500>>, <<8500, 10500>>, <<4800, 9200>>,
                          <<6600, 9500>>, <<8500, 10000>>, <<9000, 10000>>,
                          <<9100, 11500>>, <<10800, 12500>>, <<10000, 11000>>,
                          <<10500, 14000>>, <<13500, 19500>>, <<18000, 29000>>>>

\* The generator of the random module, as a linear congruential generator:
\* random.seed(s) sets the state, every random.uniform draws the next state;
\* Unit is the draw in thousandths of the unit interval.
RNG_MODULUS == 65537
RNG_MULTIPLIER == 75
RNG_INCREMENT == 74
\* A seed that leaves the generator in the state it has.
RandomSeed_kept(st, s) == st
\* random.seed(s) in state st
RandomSeed(st, s) == s % RNG_MODULUS
RandomNext(st) == (st * RNG_MULTIPLIER + RNG_INCREMENT) % RNG_MODULUS
Unit(st) == st % 1000
SERIES_DAYS == 30

\* The loop "for i in range(30)" of one year, from iteration i on: two draws,
\* the clamped step of the walk, and the entry of day (year, month, day)
\* minus 29 - i days, taken from back, the 30 dates that end on that day,
\* the latest first.
\* A walk whose steps are not clamped to the range.
RECURSIVE WalkFrom_unclamped(_, _, _, _, _, _)
WalkFrom_unclamped(i, price, st, low, high, back) ==
    IF i = SERIES_DAYS THEN << >>
    ELSE LET s1 == RandomNext(st)
             s2 == RandomNext(s1)
             mid == (low + high) \div 2
             daily_change == (mid * ((6 * Unit(s1)) \div 10 - 300)) \div 10000
             trend_part == ((high - low) * (500 + Unit(s2))) \div 100000
             stepped == price + daily_change + trend_part
             date == back[SERIES_DAYS - i]
         IN  <<[date |-> date,
                day_of_year |-> DayOfYear(date[1], date[2], date[3]),
                price |-> stepped]>>
             \o WalkFrom_unclamped(i + 1, stepped, s2, low, high, back)
RECURSIVE WalkFrom(_, _, _, _, _, _)
WalkFrom(i, price, st, low, high, back) ==
    IF i = SERIES_DAYS THEN << >>
    ELSE LET s1 == RandomNext(st)
             s2 == RandomNext(s1)
             mid == (low + high) \div 2
             daily_change == (mid * ((6 * Unit(s1)) \div 10 - 300)) \div 10000
             \* trend * uniform(0.5, 1.5) * 0.3 with trend = (high - low) / 30
             trend_part == ((high - low) * (500 + Unit(s2))) \div 100000
             stepped == Max(low, Min(high, price + daily_change + trend_part))
             date == back[SERIES_DAYS - i]
         IN  <<[date |-> date,
                day_of_year |-> DayOfYear(date[1], date[2], date[3]),
                price |-> stepped]>>
             \o WalkFrom(i + 1, stepped, s2, low, high, back)

\* The daily_data of one year: random.seed(year * 100 + month * 10 + day),
\* the first draw for the starting price, then the walk.
StaticYearSeries(st, year, month, day) ==
    LET low == PriceRanges(year)[month][1]
        high == PriceRanges(year)[month][2]
        s0 == RandomNext(RandomSeed(st, year * 100 + month * 10 + day))
        start == low + (Unit(s0) * (high - low) * 3) \div 10000
        back == DatesBack(<<year, month, day>>, SERIES_DAYS)
    IN  WalkFrom(0, start, s0, low, high, back)

\* The state of the generator after k draws.
RECURSIVE Draws(_, _)
Draws(st, k) == IF k = 0 \/ st < 0 THEN st ELSE Draws(RandomNext(st), k - 1)
\* The state the generator is in when the loop over price_ranges, entered in
\* state st, reaches year: the years come in the order of the dict, 2024
\* first, and each takes its seed, one draw and two draws per day.
RECURSIVE StateBefore(_, _, _, _)
StateBefore(st, year, month, day) ==
    IF year = 2024 THEN st
    ELSE Draws(RandomSeed(StateBefore(st, year + 1, month, day),
                          (year + 1) * 100 + month * 10 + day),
               1 + 2 * SERIES_DAYS)

\* Whether _get_static_yearly_price_history raises: datetime(year, month,
\* day) raises ValueError for a year of price_ranges that lacks the day.
StaticYearlyRaises(month, day) ==
    \E year \in RANGE_YEARS : ~ValidDate(year, month, day)
\* The state the generator is left in when it raises: in the first year that
\* lacks the day, after the seed, the first draw and the two draws of the
\* first iteration.
StateAtRaise(st, month, day) ==
    LET year == CHOOSE y \in RANGE_YEARS :
                    /\ ~ValidDate(y, month, day)
                    /\ \A z \in RANGE_YEARS : z > y => ValidDate(z, month, day)
    IN  Draws(RandomSeed(StateBefore(st, year, month, day),
                         year * 100 + month * 10 + day), 3)

\* DataFetcher._get_static_yearly_price_history(month, day) called in state
\* st of the generator, where it does not raise: the dict year -> daily
\* series it returns and the state it leaves the generator in.
_get_static_yearly_price_history(st, month, day) ==
    [data |-> [year \in RANGE_YEARS |->
                  StaticYearSeries(StateBefore(st, year, month, day),
                                   year, month, day)],
     state |-> StateBefore(st, 2019, month, day)]

\* --------------------------------------------- historical "on this day"
\* The dates a run is started on: a date of the static table's generic
\* formula, a date of its known entries, and a leap day.
RunDates == {<<2026, 11, 3>>, <<2026, 1, 30>>, <<2028, 2, 29>>}
\* The dates a historical adapter called on its own is started on: the year
\* the static table ends in and the years after it, on dates of the known
\* entries, dates of the generic formula, and the end of February.
CallDates ==
    {d \in (2025..2028) \X (1..12) \X (1..31) :
        /\ <<d[2], d[3]>> \in KnownDates \cup {<<2, 28>>, <<2, 29>>, <<6, 15>>,
                                                <<11, 3>>, <<12, 31>>}
        /\ ValidDate(d[1], d[2], d[3])}
\* datetime.now(): the date of the run, fixed by the first read.
DatetimeNow ==
    IF today # NoDate THEN {today}
    ELSE IF scope = "call" THEN CallDates ELSE RunDates

OnThisDaySite == "coingecko/history"
\* market_data.current_price.usd of a history response, in cents
LivePrice(body) == IF body = "ok" THEN Some(7000000) ELSE None

\* sorted(S, reverse=True)
RECURSIVE SortedDesc(_)
SortedDesc(S) ==
    IF S = {} THEN << >>
    ELSE LET top == CHOOSE x \in S : \A y \in S : y <= x
         IN  <<top>> \o SortedDesc(S \ {top})

HistoricalPoint(year, price, month, day) ==
    [year |-> year, price |-> price, date |-> <<year, month, day>>]

\* Static entries that include last year.
StaticEntries_all(static_data, current_year, month, day) ==
    LET years == SortedDesc({y \in DOMAIN static_data : y < current_year})
    IN  [i \in 1..Len(years) |->
            HistoricalPoint(years[i], static_data[years[i]], month, day)]
\* The entries fetch_historical_prices_on_this_day appends from the static
\* data: the years below current_year - 1, most recent first.
StaticEntries(static_data, current_year, month, day) ==
    LET years == SortedDesc({y \in DOMAIN static_data : y < current_year - 1})
    IN  [i \in 1..Len(years) |->
            HistoricalPoint(years[i], static_data[years[i]], month, day)]

\* The list fetch_historical_prices_on_this_day returns when the live lookup
\* yielded price (None when it yielded nothing): historical_prices[:15]
OnThisDay(price, date) ==
    LET current_year == date[1]  month == date[2]  day == date[3]
        live == IF Truthy(price)
                THEN <<HistoricalPoint(current_year - 1, Val(price), month, day)>>
                ELSE << >>
        all == live \o StaticEntries(_get_static_historical_data(month, day),
                                     current_year, month, day)
    IN  SubSeq(all, 1, Min(Len(all), MAX_HISTORICAL_ENTRIES))

\* DataFetcher.fetch_historical_prices_on_this_day: its request is sent
\* with session.get directly, no _rate_limit() precedes it.
fetch_historical_prices_on_this_day ==
    /\ Running("fetch_historical_prices_on_this_day")
    /\ UNCHANGED random_state
    /\ \E now \in DatetimeNow, ans \in Answers(OnThisDaySite) :
         /\ today' = now
         /\ Request(OnThisDaySite, FALSE, ans, 0, IfStatus200(ans))
         /\ CASE IfStatus200(ans) = "raise" -> Escape
              [] IfStatus200(ans) = "parse" ->
                    Finish(OnThisDay(LivePrice(ans.body), now))
              [] OTHER -> Finish(OnThisDay(None, now))

\* ------------------------------------------------ historical yearly data
YearlySite(n) ==
    CASE n = 1 -> "coingecko/market_chart/range?year=-1"
      [] n = 2 -> "coingecko/market_chart/range?year=-2"
      [] n = 3 -> "coingecko/market_chart/range?year=-3"
\* The daily_prices of a range response for the days days ending on
\* (year, month, day): one entry per price of the response, which carries
\* the latest HistoryPoints days at most.
LiveYearSeries(body, year, month, day, days) ==
    IF body = "ok"
    THEN LET n == Min(days + 1, HistoryPoints)
             back == DatesBack(<<year, month, day>>, n)
         IN  [i \in 1..n |->
                 LET date == back[n + 1 - i]
                 IN  [date |-> date,
                      day_of_year |-> DayOfYear(date[1], date[2], date[3]),
                      price |-> 60000 + 100 * i]]
    ELSE << >>

\* "if year in static_yearly_data": the fallback after a live call that
\* stored nothing.
StaticFallback(historical_data, year, month, day) ==
    LET static_yearly_data ==
            _get_static_yearly_price_history(random_state, month, day).data
    IN  IF year \in DOMAIN static_yearly_data
        THEN (year :> static_yearly_data[year]) @@ historical_data
        ELSE historical_data

\* DataFetcher.fetch_historical_year_price_data(years_back, days), one
\* iteration of its loop per step.  The static series are built before the
\* loop; in the loop today.replace(year=year) raises ValueError, which the
\* handler catches, when the year lacks today's day.
fetch_historical_year_price_data ==
    /\ Running("fetch_historical_year_price_data")
    /\ \E now \in DatetimeNow :
         LET year == now[1] - sub
             month == now[2]
             day == now[3]
             next(rec) == IF sub < years_back THEN Continue(rec) ELSE Finish(rec)
         IN  /\ today' = now
             /\ random_state' =
                    IF sub > 1 THEN random_state
                    ELSE IF StaticYearlyRaises(month, day)
                    THEN StateAtRaise(random_state, month, day)
                    ELSE _get_static_yearly_price_history(random_state, month, day).state
             /\ IF StaticYearlyRaises(month, day)
                THEN Escape /\ UNCHANGED <<scope, args, clock, log, devs>>
                ELSE IF ~ValidDate(year, month, day)
                THEN /\ clock' = _rate_limit(clock)
                     /\ UNCHANGED <<scope, args, log, devs>>
                     /\ next(StaticFallback(stats, year, month, day))
                ELSE \E ans \in Answers(YearlySite(sub)) :
                       LET series == LiveYearSeries(ans.body, year, month, day, Cur.days)
                       IN  /\ Request(YearlySite(sub), TRUE, ans, 0, IfStatus200(ans))
                           /\ IF IfStatus200(ans) = "raise" THEN Escape
                              ELSE IF IfStatus200(ans) = "parse" /\ series # << >>
                              THEN next((year :> series) @@ stats)
                              ELSE next(StaticFallback(stats, year, month, day))

\* -------------------------------------------------------------------- main
\* A value formatted with a numeric format specification raises unless it is
\* a number: d.get(key, 'N/A') yields the string 'N/A' for a key the record
\* lacks (ValueError) and None for a key bound to None (TypeError).
IsNumber(d, k) == k \in DOMAIN d /\ d[k] # None
\* d.get(key, 0) formatted: only a key bound to None raises.
IsNumberOrMissing(d, k) == k \notin DOMAIN d \/ d[k] # None

\* The fields ReportGenerator._build_data_summary formats as numbers.
DIGEST_BITCOIN == {"price_usd", "price_change_24h_percent",
                   "price_change_7d_percent", "price_change_30d_percent",
                   "ath_usd", "ath_change_percent", "circulating_supply",
                   "total_supply"}
DIGEST_30D == {"price_high", "price_low", "price_start", "price_end"}
DIGEST_7D == {"price_high", "price_low"}
DIGEST_BLOCKCHAIN == {"hash_rate_current", "hash_rate_30d_avg", "tx_count_current",
                      "tx_count_30d_avg", "difficulty_current",
                      "difficulty_30d_change"}
\* Whether _build_data_summary raises on the snapshot d.
_build_data_summary_raises(d) ==
    \/ \E k \in DIGEST_BITCOIN : ~IsNumber(d["bitcoin"], k)
    \/ \E k \in DIGEST_30D : ~IsNumber(d["price_history_30d"], k)
    \/ \E k \in DIGEST_7D : ~IsNumber(d["price_history_7d"], k)
    \/ \E k \in DIGEST_BLOCKCHAIN : ~IsNumber(d["blockchain"], k)

\* Whether ReportGenerator._generate_template_report raises on d: the fields
\* it formats without "or 0".
_generate_template_report_raises(d) ==
    \/ \E k \in {"ath_usd", "circulating_supply", "total_supply"} :
           ~IsNumberOrMissing(d["bitcoin"], k)
    \/ \E k \in {"difficulty_current", "difficulty_30d_change"} :
           ~IsNumberOrMissing(d["blockchain"], k)

\* Whether ReportGenerator.generate_report raises: the digest is built when
\* the narrative backend is in use, the template report otherwise.
generate_report_raises(d, use_ai) ==
    IF use_ai THEN _build_data_summary_raises(d)
    ELSE _generate_template_report_raises(d)

\* Whether the summary panel main prints after saving raises.
SummaryRaises(d) ==
    \E k \in {"price_usd", "price_change_24h_percent"} :
        ~IsNumberOrMissing(d["bitcoin"], k)

\* main, after fetch_all_data returned: "if not data.get('bitcoin')"
main_check ==
    /\ phase = "check"
    /\ IF data["bitcoin"] = EmptyDict
       THEN phase' = "exit" /\ exit_code' = 1
       ELSE phase' = "generate" /\ exit_code' = exit_code
    /\ UNCHANGED <<scope, args, today, step, sub, attempt, stats, data, clock, log,
                   steps, devs, raised, report, random_state>>

\* main, step 2: generator.generate_report(data, report_type)
main_generate ==
    /\ phase = "generate"
    /\ IF generate_report_raises(data, args.use_ai)
       THEN /\ phase' = "exit" /\ exit_code' = 1
            /\ raised' = "generate_report" /\ report' = report
       ELSE /\ phase' = "save" /\ exit_code' = exit_code
            /\ raised' = raised /\ report' = "generated"
    /\ UNCHANGED <<scope, args, today, step, sub, attempt, stats, data, clock, log,
                   steps, devs, random_state>>

\* main, step 3: save_report, then the summary panel and the normal end.
main_save ==
    /\ phase = "save"
    /\ report' = "saved"
    /\ phase' = "exit"
    /\ IF SummaryRaises(data)
       THEN exit_code' = 1 /\ raised' = "main"
       ELSE exit_code' = 0 /\ raised' = raised
    /\ UNCHANGED <<scope, args, today, step, sub, attempt, stats, data, clock, log,
                   steps, devs, random_state>>

\* ----------------------------------------------------------- specification
Init ==
    /\ scope = "main"
    /\ args \in [fast : BOOLEAN, use_ai : BOOLEAN]
    /\ today = NoDate
    /\ phase = "fetch" /\ step = 1 /\ sub = 1 /\ attempt = 0
    /\ stats = EmptyDict
    /\ data = EmptyDict
    /\ clock = [elapsed |-> API_DELAY_SECONDS, gap |-> API_DELAY_SECONDS,
                limited |-> FALSE]
    /\ log = << >>
    /\ steps = <<LiveSteps[1]>>
    /\ devs = 0
    /\ raised = "" /\ exit_code = -1 /\ report = "none"
    /\ random_state = 0

Next ==
    \/ fetch_bitcoin_data
    \/ fetch_price_history
    \/ fetch_fear_greed_index
    \/ fetch_blockchain_stats
    \/ fetch_block_stats
    \/ fetch_network_stats
    \/ fetch_address_stats
    \/ calculate_supply_stats
    \/ fetch_onchain_analytics
    \/ fetch_market_trading_data
    \/ fetch_hash_rate_history
    \/ fetch_active_addresses_history
    \/ fetch_bitcoin_news
    \/ fetch_historical_prices_on_this_day
    \/ fetch_historical_year_price_data
    \/ main_check
    \/ main_generate
    \/ main_save

Spec == Init /\ [][Next]_vars

\* --------------------------------------------- a retried adapter on its own
\* fetch_bitcoin_data or fetch_price_history(days) is called on a fresh
\* DataFetcher and its upstream answers each attempt in any way.
InitRetry ==
    /\ scope = "call"
    /\ args = [fast |-> FALSE, use_ai |-> FALSE]
    /\ today = NoDate
    /\ phase = "fetch" /\ step \in 1..5 /\ sub = 1 /\ attempt = 0
    /\ stats = EmptyDict
    /\ data = EmptyDict
    /\ clock = [elapsed |-> API_DELAY_SECONDS, gap |-> API_DELAY_SECONDS,
                limited |-> FALSE]
    /\ log = << >>
    /\ steps = <<LiveSteps[step]>>
    /\ devs = 0
    /\ raised = "" /\ exit_code = -1 /\ report = "none"
    /\ random_state = 0

NextRetry ==
    \/ fetch_bitcoin_data
    \/ fetch_price_history

SpecRetry == InitRetry /\ [][NextRetry]_vars

\* ================================================================== claims
\* The source adapters: every fetch_* method fetch_all_data calls.
FetchAdapters ==
    {HistoricalSteps[i].fn : i \in 1..Len(HistoricalSteps)}
    \cup ({LiveSteps[i].fn : i \in 1..Len(LiveSteps)} \ {"calculate_supply_stats"})

\* The steps of fetch_all_data.
StepNames == FetchAdapters \cup {"calculate_supply_stats"}

\* C1: no source adapter lets an exception escape to its caller, whatever
\* its upstream calls answer (transport error, timeout, error status,
\* malformed payload).
C1_AdaptersNeverRaise == raised \notin FetchAdapters

\* C3: every outbound request of a run is issued after a call of the rate
\* limiter made since the request before it, and at least API_DELAY_SECONDS
\* after the request before it.
C3_EveryRequestRateLimited ==
    \A i \in 1..Len(log) : log[i].limited /\ (i > 1 => log[i].spaced)

\* ---------------------------------------------------------- retry (C4, C5)
\* Every attempt made so far was answered with status 429.
All429 == log # << >> /\ \A i \in 1..Len(log) : log[i].status = 429
\* Every attempt made so far raised a network-level exception.
AllExceptions == log # << >> /\ \A i \in 1..Len(log) : log[i].status = 0
\* The request log[i] is followed by another attempt of the wrapper.
FollowedByRetry(i) == i < Len(log) \/ phase = "fetch"
\* The retried adapter has returned the empty record without raising.
ReturnedEmpty == phase = "returned" /\ raised = "" /\ data[Cur.cat] = EmptyDict

C5_ExceptionsThreeRequests ==
    AllExceptions =>
        /\ Len(log) <= max_retries
        /\ phase = "returned" => Len(log) = max_retries /\ ReturnedEmpty
        /\ \A i \in 1..Len(log) :
              /\ log[i].attempt = i - 1
              /\ i < max_retries => /\ log[i].sleep = EXCEPTION_BACKOFF
                                    /\ log[i].end = "retry"
                                    /\ FollowedByRetry(i)
              /\ i = max_retries => /\ log[i].sleep = 0
                                    /\ log[i].end = "raise"
                                    /\ ReturnedEmpty
\* The adapter has returned an empty record after three exceptions.
C5_Witness == AllExceptions /\ Len(log) = max_retries /\ ReturnedEmpty

\* ------------------------------------------------- the nominal snapshot (C2)
\* The record of each category when every upstream call answers Nominal.
NominalBlockStats ==
    LET height == [block_height |-> Some(NominalHeight)]
    IN  MempoolFields("ok") @@ FeeFields("ok") @@ HalvingFields(height) @@ height
NominalHistory(days) ==
    HistoryRecord(days, HistoryPrices("ok", days), HistoryVolumes("ok", days))
NominalYearly(date) ==
    [year \in {date[1] - n : n \in 1..years_back} |->
        LiveYearSeries("ok", year, date[2], date[3], SERIES_DAYS)]
\* The snapshot fetch_all_data returns on date when every call answers Nominal.
NominalSnapshot(fast, date) ==
    [bitcoin |-> PriceRecord("ok"),
     price_history_200d |-> NominalHistory(200),
     price_history_90d |-> NominalHistory(90),
     price_history_30d |-> NominalHistory(30),
     price_history_7d |-> NominalHistory(7),
     fear_greed |-> FearGreedRecord(FearGreedEntries("ok")),
     blockchain |-> BlockchainStatsFields(1, ChartValues("ok", BlockchainStatsPoints(1)))
                    @@ BlockchainStatsFields(2, ChartValues("ok", BlockchainStatsPoints(2)))
                    @@ BlockchainStatsFields(3, ChartValues("ok", BlockchainStatsPoints(3))),
     block_stats |-> NominalBlockStats,
     network_stats |-> NetworkStatsFields(1, "ok") @@ NetworkStatsFields(2, "ok")
                       @@ NetworkStatsFields(3, "ok"),
     address_stats |-> AddressStatsFields("ok"),
     supply_stats |-> SupplyStats(PriceRecord("ok"), NominalBlockStats),
     onchain_analytics |-> OnchainFields(1, "ok") @@ OnchainFields(2, "ok")
                           @@ OnchainFields(3, "ok") @@ OnchainFields(4, "ok"),
     market_data |-> MarketFields(1, "ok") @@ MarketFields(2, "ok")
                     @@ MarketFields(3, "ok") @@ MarketFields(4, "ok")
                     @@ MarketFields(5, "ok"),
     hash_rate_history |-> ChartHistoryRecord(ChartValues("ok", 30)),
     active_addresses_history |-> ChartHistoryRecord(ChartValues("ok", 30)),
     bitcoin_news |-> NewsLoop(FeedItems("ok"), << >>, news_limit),
     historical_on_this_day |-> IF fast THEN << >>
                                ELSE OnThisDay(LivePrice("ok"), date),
     historical_yearly_data |-> IF fast THEN << >> ELSE NominalYearly(date)]

\* The call sites a run requests when every call answers Nominal.
NominalSites(fast) ==
    {PriceSite, FearGreedSite, AddressStatsSite, HashRateHistorySite,
     ActiveAddressesHistorySite, NewsSite}
    \cup {HistorySite(d) : d \in {200, 90, 30, 7}}
    \cup {BlockchainStatsSite(n) : n \in 1..3}
    \cup {BlockStatsSite(n) : n \in {1, 3, 4}}
    \cup {NetworkStatsSite(n) : n \in 1..3}
    \cup {OnchainSite(n) : n \in 1..4}
    \cup {MarketSite(n) : n \in 1..5}
    \cup (IF fast THEN {} ELSE {OnThisDaySite} \cup {YearlySite(n) : n \in 1..years_back})

\* The requests answered with an HTTP status other than 200.
ErrorStatuses == {i \in 1..Len(log) : log[i].status \notin {0, 200}}
\* Exactly one upstream call, not of the price adapter, was answered with an
\* error status, and every other call was answered nominally.
OneErrorStatus ==
    /\ devs = 1
    /\ Cardinality(ErrorStatuses) = 1
    /\ \A i \in ErrorStatuses : log[i].site # PriceSite
\* The category of the step whose call was answered with the error status.
FailedCategory == log[CHOOSE i \in ErrorStatuses : TRUE].cat

\* The value got of a category lacks nothing but what the failed call gives:
\* a record keeps the fields of the nominal record it has, a list keeps
\* entries of the nominal list, the yearly mapping differs in one year at most.
LacksOnlyFailed(cat, got, nominal) ==
    CASE cat = "historical_on_this_day" ->
            {got[i] : i \in DOMAIN got} \subseteq {nominal[i] : i \in DOMAIN nominal}
      [] cat = "historical_yearly_data" ->
            /\ DOMAIN got \subseteq DOMAIN nominal
            /\ Cardinality({y \in DOMAIN nominal :
                              y \notin DOMAIN got \/ got[y] # nominal[y]}) <= 1
      [] OTHER ->
            /\ DOMAIN got \subseteq DOMAIN nominal
            /\ \A k \in DOMAIN got : got[k] = nominal[k]

\* C2: when exactly one upstream call of an adapter other than the price
\* adapter is answered with an error status, fetch_all_data completes, every
\* call of the nominal run is still made, the category of the failed call
\* lacks only what that call gives, and every other category has the value
\* of the nominal run.
C2_OneErrorStatusIsLocal ==
    OneErrorStatus =>
        /\ raised \notin StepNames
        /\ phase # "fetch" =>
              LET nominal == NominalSnapshot(args.fast, today)
              IN  /\ \A site \in NominalSites(args.fast) :
                        \E i \in 1..Len(log) : log[i].site = site
                  /\ DOMAIN data = DOMAIN nominal
                  /\ \A cat \in DOMAIN nominal :
                        IF cat = FailedCategory
                        THEN LacksOnlyFailed(cat, data[cat], nominal[cat])
                        ELSE data[cat] = nominal[cat]

\* ------------------------------------------------------- block stats (C6, C10)
\* The step number of an adapter in the plan.
StepIndex(fn) == CHOOSE i \in 1..Len(LiveSteps) : LiveSteps[i].fn = fn
\* A step of a run is over: it returned or an exception escaped from it.
StepOver(fn) ==
    /\ scope = "main"
    /\ step > StepIndex(fn) \/ (step = StepIndex(fn) /\ phase # "fetch")
\* The log entries of the requests sent to a site.
Requests(site) == {i \in 1..Len(log) : log[i].site = site}
\* The request sent to a site was answered and read.
Parsed(site) == \E i \in Requests(site) : log[i].end = "parse"
\* reward(h) and blocks_until_halving(h) of the halving schedule
RewardIs(reward, h) == reward.n * Pow2(h \div HALVING_INTERVAL) = INITIAL_REWARD * reward.d
BlocksUntil(h) == HALVING_INTERVAL * (h \div HALVING_INTERVAL + 1) - h
\* The record holds the height h and the reward and halving fields of h.
DerivedFrom(rec, h) ==
    /\ {"block_height", "block_reward", "blocks_until_halving"} \subseteq DOMAIN rec
    /\ rec["block_height"] = Some(h)
    /\ rec["block_reward"] # None /\ RewardIs(Val(rec["block_reward"]), h)
    /\ rec["blocks_until_halving"] = Some(BlocksUntil(h))
    /\ BlocksUntil(h) \in 1..HALVING_INTERVAL

\* C6: once fetch_block_stats is over, the secondary height provider was
\* requested if and only if the primary yielded no height; a height taken
\* from the secondary after a failed primary is the block_height and the
\* reward and halving fields are derived from it; and the fee request and
\* the mempool request were each made and each filled their own fields
\* when answered, whatever the other requests gave.
C6_FirstSuccessWins ==
    StepOver("fetch_block_stats") =>
        /\ Requests(BlockStatsSite(1)) # {}
        /\ Requests(BlockStatsSite(2)) # {} <=> ~Parsed(BlockStatsSite(1))
        /\ Requests(BlockStatsSite(3)) # {}
        /\ Requests(BlockStatsSite(4)) # {}
        /\ "block_stats" \in DOMAIN data
        /\ LET rec == data["block_stats"]
           IN  /\ ~Parsed(BlockStatsSite(1)) /\ Parsed(BlockStatsSite(2)) =>
                     \E h \in Heights : DerivedFrom(rec, h)
               /\ Parsed(BlockStatsSite(3)) => DOMAIN FeeFields("ok") \subseteq DOMAIN rec
               /\ Parsed(BlockStatsSite(4)) => DOMAIN MempoolFields("ok") \subseteq DOMAIN rec

\* C10: for every height h a provider returned, the record of
\* fetch_block_stats holds block_reward = 50 / 2^floor(h / 210000) and
\* blocks_until_halving = 210000 * (floor(h / 210000) + 1) - h, which lies
\* in 1..210000.
C10_RewardAndHalvingFromHeight ==
    "block_stats" \in DOMAIN data =>
        LET rec == data["block_stats"]
        IN  "block_height" \in DOMAIN rec => DerivedFrom(rec, Val(rec["block_height"]))

\* ------------------------------------------------------------ the run (C7)
\* fetch_all_data returned its snapshot to main.
FetchReturned == scope = "main" /\ phase # "fetch" /\ raised \notin StepNames

\* C7: a run whose snapshot was assembled ends with a failure status if and
\* only if the price record is empty; with an empty price record no report
\* is produced, and with a price record the run succeeds in the template
\* mode and in the narrative mode whatever else the snapshot lacks.
C7_RunFailsOnlyWithoutPrice ==
    FetchReturned /\ phase = "exit" =>
        /\ exit_code # 0 <=> data["bitcoin"] = EmptyDict
        /\ data["bitcoin"] = EmptyDict => report = "none"
        /\ data["bitcoin"] # EmptyDict => report = "saved"

\* --------------------------------------------------------- supply stats (C8)
\* C8: fetch_all_data never raises because a field of an adapter's record
\* is absent or null: calculate_supply_stats completes for every record
\* fetch_bitcoin_data returns, the empty record and a record whose
\* price_usd or circulating_supply is null included.
C8_SupplyStatsCompletes ==
    /\ raised # "calculate_supply_stats"
    /\ StepOver("calculate_supply_stats") => "supply_stats" \in DOMAIN data

\* ------------------------------------------------------- the fixed order (C9)
\* The order of the steps as the claim lists it.
FixedOrder ==
    <<"fetch_bitcoin_data", "fetch_price_history", "fetch_price_history",
      "fetch_price_history", "fetch_price_history", "fetch_fear_greed_index",
      "fetch_blockchain_stats", "fetch_block_stats", "fetch_network_stats",
      "fetch_address_stats", "calculate_supply_stats", "fetch_onchain_analytics",
      "fetch_market_trading_data", "fetch_hash_rate_history",
      "fetch_active_addresses_history", "fetch_bitcoin_news",
      "fetch_historical_prices_on_this_day", "fetch_historical_year_price_data">>
FixedDays == <<0, 200, 90, 30, 7>>
\* The number of steps of a run: the historical steps are the last two.
StepCount == IF args.fast THEN Len(FixedOrder) - 2 ELSE Len(FixedOrder)

\* C9: whatever steps fail, the steps fetch_all_data has invoked are an
\* initial part of the fixed order (the historical steps only with
\* include_historical), every one of them once; all of them when the
\* snapshot is returned; and supply stats is invoked only after the price
\* step and the block-stats step have returned their records.
C9_FixedLinearOrder ==
    scope = "main" =>
        /\ Len(steps) <= StepCount
        /\ \A i \in 1..Len(steps) :
              /\ steps[i].fn = FixedOrder[i]
              /\ i <= Len(FixedDays) => steps[i].days = FixedDays[i]
              /\ \A j \in 1..Len(steps) : steps[i].cat = steps[j].cat => i = j
        /\ Len(steps) = step
        /\ {steps[i].cat : i \in 1..(Len(steps) - 1)} \subseteq DOMAIN data
        /\ FetchReturned => Len(steps) = StepCount
        /\ steps[Len(steps)].fn = "calculate_supply_stats" =>
              {"bitcoin", "block_stats"} \subseteq DOMAIN data
\* A run with the historical steps in which a step failed and the snapshot
\* was returned all the same.
C9_Witness ==
    /\ FetchReturned /\ ~args.fast /\ devs > 0
    /\ Len(steps) = Len(FixedOrder)
    /\ \E i \in 1..Len(steps) : data[steps[i].cat] = EmptyDict

\* ================================================= functions on their own
\* A function of the pipeline that reads no upstream is called on its own:
\* args holds its arguments, data the value it returned; the variables of
\* the pipeline keep their initial values.
Idle ==
    /\ scope = "call"
    /\ today = NoDate
    /\ step = 1 /\ sub = 1 /\ attempt = 0
    /\ stats = EmptyDict
    /\ clock = [elapsed |-> API_DELAY_SECONDS, gap |-> API_DELAY_SECONDS,
                limited |-> FALSE]
    /\ log = << >>
    /\ steps = << >>
    /\ devs = 0
    /\ raised = "" /\ exit_code = -1 /\ report = "none"

\* The function called returns result.
Returns(result) ==
    /\ data' = result
    /\ phase' = "returned"
    /\ UNCHANGED <<scope, args, today, step, sub, attempt, stats, clock, log,
                   steps, devs, raised, exit_code, report, random_state>>

Returned(fn) == phase = "returned" /\ args.fn = fn

\* ------------------------------------ _calculate_moving_averages on its own
\* Points a series has more or fewer than a period.
MaxExtra == 1
\* The lengths of the series: none, one, and around every period.
SeriesLengths ==
    {0, 1} \cup {n \in 0..(200 + MaxExtra) :
                    \E p \in SMA_PERIODS : n \in (p - MaxExtra)..(p + MaxExtra)}
\* The courses a series takes, in dollars: steady, rising, falling, swinging,
\* a jump or a collapse on the last day, worthless throughout, and
\* worthless over the last week.
Courses == {"flat", "rise", "fall", "saw", "spike", "dip", "zero", "late_zero"}
PriceAt(course, i, n) ==
    CASE course = "flat" -> 100
      [] course = "rise" -> 100 + i
      [] course = "fall" -> 1000 - i
      [] course = "saw" -> 100 + 20 * (i % 2)
      [] course = "spike" -> IF i = n THEN 500 ELSE 100
      [] course = "dip" -> IF i = n THEN 0 ELSE 100
      [] course = "zero" -> 0
      [] course = "late_zero" -> IF i > n - 7 THEN 0 ELSE 100
PriceSeries(course, n) == [i \in 1..n |-> PriceAt(course, i, n)]

InitAverages ==
    /\ Idle
    /\ random_state = 0
    /\ phase = "called"
    /\ \E course \in Courses, n \in SeriesLengths :
         args = [fn |-> "_calculate_moving_averages",
                 prices |-> PriceSeries(course, n)]
    /\ data = EmptyDict

CallMovingAverages ==
    /\ phase = "called"
    /\ args.fn = "_calculate_moving_averages"
    /\ Returns(_calculate_moving_averages(args.prices))

NextAverages == CallMovingAverages

SpecAverages == InitAverages /\ [][NextAverages]_vars

\* C11: for a series shorter than a period p, the list sma_<p> is empty,
\* sma_<p>_current is None and the result holds no price_vs_sma_<p>.
C11_ShortSeriesHasNoSma ==
    Returned("_calculate_moving_averages") =>
        \A p \in SMA_PERIODS :
            Len(args.prices) < p =>
                /\ data.lists[SmaKey(p)] = << >>
                /\ data.currents[SmaCurrentKey(p)] = None
                /\ PriceVsKey(p) \notin DOMAIN data.versus

\* A series of 199 prices has returned: too short for the period 200 alone.
C11_Witness ==
    /\ Returned("_calculate_moving_averages")
    /\ Len(args.prices) = 199
    /\ args.prices[1] # 0
    /\ data.currents["sma_50_current"] # None
    /\ data.currents["sma_200_current"] = None

\* The mean of the p prices that end at position i (counted from 1) of the
\* series is the quotient m.
IsMeanEndingAt(m, prices, i, p) ==
    m.n * p = m.d * SumSeq(SubSeq(prices, i - p + 1, i))
\* The quotient q in lowest terms, with a positive denominator.
Abs(x) == IF x < 0 THEN -x ELSE x
RECURSIVE Gcd(_, _)
Gcd(a, b) == IF b = 0 THEN a ELSE Gcd(b, a % b)
Lowest(q) ==
    LET g == Gcd(Abs(q.n), Abs(q.d))
        sign == IF q.d < 0 THEN -1 ELSE 1
    IN  Ratio(sign * (q.n \div g), sign * (q.d \div g))
\* v is (last - m) / m * 100 for the non-zero quotient m.
IsPercentAbove(v, last, m) ==
    Lowest(v) = Lowest(Ratio((last * m.d - m.n) * 100, m.n))

\* What C12 says of the lists: n - p + 1 entries, entry i the mean of the p
\* values ending at i, and sma_<p>_current the last of them.
SmaListIsExact(p) ==
    LET prices == args.prices
        n == Len(prices)
        ma == data.lists[SmaKey(p)]
        cur == data.currents[SmaCurrentKey(p)]
    IN  /\ Len(ma) = n - p + 1
        /\ \A i \in p..n : IsMeanEndingAt(ma[i - p + 1], prices, i, p)
        /\ cur = Some(ma[n - p + 1])
\* price_vs_sma_<p> is in the result and is the distance of the last price
\* from sma_<p>_current in percent.
PriceVsIsExact(p) ==
    /\ PriceVsKey(p) \in DOMAIN data.versus
    /\ IsPercentAbove(data.versus[PriceVsKey(p)], args.prices[Len(args.prices)],
                      Val(data.currents[SmaCurrentKey(p)]))

\* C12 as stated: for a series of n >= p prices the list sma_<p> has
\* n - p + 1 entries, each the mean of the p values ending there,
\* sma_<p>_current is the last entry, and price_vs_sma_<p> is present and
\* equals (last price - sma_<p>_current) / sma_<p>_current * 100.
C12_SmaAndPriceVsAlwaysPresent ==
    Returned("_calculate_moving_averages") =>
        \A p \in SMA_PERIODS :
            Len(args.prices) >= p => SmaListIsExact(p) /\ PriceVsIsExact(p)

\* C12, amended: the lists and the current values are as stated;
\* price_vs_sma_<p> is present exactly when sma_<p>_current is not zero, and
\* then has the stated value.
C12_SmaExactPriceVsUnlessZero ==
    Returned("_calculate_moving_averages") =>
        \A p \in SMA_PERIODS :
            Len(args.prices) >= p =>
                /\ SmaListIsExact(p)
                /\ IF Val(data.currents[SmaCurrentKey(p)]).n # 0
                   THEN PriceVsIsExact(p)
                   ELSE PriceVsKey(p) \notin DOMAIN data.versus

\* A series of 201 prices whose last seven are zero has returned: every
\* period has a list, the mean of the last 7 is zero and that of the last
\* 20 is not.
C12_Witness ==
    /\ Returned("_calculate_moving_averages")
    /\ Len(args.prices) = 201
    /\ args.prices[201] = 0 /\ args.prices[1] # 0
    /\ Len(data.lists["sma_200"]) = 2
    /\ "price_vs_sma_7" \notin DOMAIN data.versus
    /\ "price_vs_sma_20" \in DOMAIN data.versus

\* --------------------------- fetch_historical_prices_on_this_day on its own
\* The adapter is called on a fresh DataFetcher, on any date of CallDates,
\* and its live lookup is answered in any way.
InitOnThisDay ==
    /\ scope = "call"
    /\ args = [fast |-> FALSE, use_ai |-> FALSE]
    /\ today = NoDate
    /\ phase = "fetch" /\ step = Len(LiveSteps) + 1 /\ sub = 1 /\ attempt = 0
    /\ stats = EmptyDict
    /\ data = EmptyDict
    /\ clock = [elapsed |-> API_DELAY_SECONDS, gap |-> API_DELAY_SECONDS,
                limited |-> FALSE]
    /\ log = << >>
    /\ steps = <<HistoricalSteps[1]>>
    /\ devs = 0
    /\ raised = "" /\ exit_code = -1 /\ report = "none"
    /\ random_state = 0

NextOnThisDay == fetch_historical_prices_on_this_day

SpecOnThisDay == InitOnThisDay /\ [][NextOnThisDay]_vars

\* fetch_historical_prices_on_this_day has returned its list.
OnThisDayReturned ==
    /\ phase = "returned" /\ raised = ""
    /\ "historical_on_this_day" \in DOMAIN data
\* The price the live lookup yielded, None when it yielded none: the request
\* raised, the status was not 200, or the response held no price.
LiveYield ==
    IF log[1].end = "parse" THEN LivePrice(log[1].body) ELSE None

\* C13: the list returned has at most 15 entries, its years decrease
\* strictly, every year is below the current year, and a price the live
\* lookup yielded is the first entry, under last year.
C13_OnThisDayOrderedAndUnique ==
    OnThisDayReturned =>
        LET r == data["historical_on_this_day"]
        IN  /\ Len(r) <= 15
            /\ \A i \in 1..Len(r) : r[i].year < today[1]
            /\ \A i \in 1..(Len(r) - 1) : r[i].year > r[i + 1].year
            /\ LiveYield # None =>
                  /\ r # << >>
                  /\ r[1].year = today[1] - 1
                  /\ r[1].price = Val(LiveYield)
                  /\ \A i \in 2..Len(r) : r[i].year # today[1] - 1

\* In 2026 the live lookup yielded the price of 2025, a year the static data
\* holds too: the live entry comes first and the list is cut to 15 entries.
C13_Witness ==
    /\ OnThisDayReturned
    /\ today = <<2026, 11, 3>>
    /\ LiveYield # None
    /\ 2025 \in DOMAIN _get_static_historical_data(11, 3)
    /\ Len(data["historical_on_this_day"]) = 15
    /\ data["historical_on_this_day"][1].price = Val(LiveYield)
    /\ data["historical_on_this_day"][15].year = 2011

\* C14: when the live lookup for last year yielded no price and the static
\* data of the date holds last year, the list returned holds last year's
\* entry with the static price.
C14_StaticCoversFailedLiveLookup ==
    OnThisDayReturned =>
        LET r == data["historical_on_this_day"]
            static_data == _get_static_historical_data(today[2], today[3])
            last_year == today[1] - 1
        IN  (LiveYield = None /\ last_year \in DOMAIN static_data) =>
                \E i \in 1..Len(r) :
                    r[i].year = last_year /\ r[i].price = static_data[last_year]

\* ------------------------------ _get_static_yearly_price_history on its own
\* The (month, day) pairs the generator is called with.
GeneratorDays ==
    {md \in (1..12) \X {1, 15, 28, 29, 31} : ValidDate(2024, md[1], md[2])}
\* States the generator of the random module may be in when the program, or
\* any other user of the module, has drawn from it or seeded it.
GeneratorStates == {0, 1, 40000}

\* The generator is called twice with the same (month, day); between the two
\* calls the random module may be used.
InitStatic ==
    /\ Idle
    /\ phase = "called"
    /\ \E md \in GeneratorDays :
         args = [fn |-> "_get_static_yearly_price_history",
                 month |-> md[1], day |-> md[2]]
    /\ data = << >>
    /\ random_state \in GeneratorStates

\* One call of _get_static_yearly_price_history(month, day): the dict it
\* returns is appended to data, or its ValueError is recorded.
CallStaticYearly ==
    /\ phase = "called"
    /\ args.fn = "_get_static_yearly_price_history"
    /\ steps' = Append(steps, args.fn)
    /\ IF StaticYearlyRaises(args.month, args.day)
       THEN /\ raised' = args.fn
            /\ phase' = "returned"
            /\ data' = data
            /\ random_state' = StateAtRaise(random_state, args.month, args.day)
       ELSE LET r == _get_static_yearly_price_history(random_state,
                                                      args.month, args.day)
            IN  /\ raised' = raised
                /\ phase' = IF Len(data) = 1 THEN "returned" ELSE "called"
                /\ data' = Append(data, r.data)
                /\ random_state' = r.state
    /\ UNCHANGED <<scope, args, today, step, sub, attempt, stats, clock, log,
                   devs, exit_code, report>>

\* A use of the random module between the two calls: a draw, or a seed and
\* draws that leave the generator in any state.
UseRandom ==
    /\ phase = "called"
    /\ args.fn = "_get_static_yearly_price_history"
    /\ Len(data) = 1
    /\ steps[Len(steps)] # "random"
    /\ steps' = Append(steps, "random")
    /\ random_state' \in GeneratorStates \cup {RandomNext(random_state)}
    /\ UNCHANGED <<scope, args, today, phase, step, sub, attempt, stats, data,
                   clock, log, devs, raised, exit_code, report>>

NextStatic ==
    \/ CallStaticYearly
    \/ UseRandom

SpecStatic == InitStatic /\ [][NextStatic]_vars

\* C15: two calls of _get_static_yearly_price_history with the same
\* (month, day) return the same series for every year, dates and prices,
\* whatever use was made of the random module between them.
C15_GeneratorIsDeterministic ==
    (args.fn = "_get_static_yearly_price_history" /\ Len(data) = 2) =>
        /\ DOMAIN data[1] = DOMAIN data[2]
        /\ \A year \in DOMAIN data[1] : data[1][year] = data[2][year]

\* The generator was called, the random module was used, the generator was
\* called again on 15 November; both calls returned 30 days for 2024.
C15_Witness ==
    /\ args.fn = "_get_static_yearly_price_history"
    /\ args.month = 11 /\ args.day = 15
    /\ steps = <<args.fn, "random", args.fn>>
    /\ Len(data) = 2
    /\ Len(data[1][2024]) = 30 /\ Len(data[2][2024]) = 30
    /\ data[1][2024][30].date = <<2024, 11, 15>>
    /\ data[1][2024][1].price # data[1][2024][30].price

\* ---------------------------------- _get_static_historical_data on its own
\* The (month, day) pairs the table is asked for: every month and day
\* number, and the month numbers next to the calendar's.
TableDays == (0..13) \X (1..31)

InitTable ==
    /\ Idle
    /\ random_state = 0
    /\ phase = "called"
    /\ \E md \in TableDays :
         args = [fn |-> "_get_static_historical_data",
                 month |-> md[1], day |-> md[2]]
    /\ data = EmptyDict

CallStaticHistorical ==
    /\ phase = "called"
    /\ args.fn = "_get_static_historical_data"
    /\ Returns(_get_static_historical_data(args.month, args.day))

NextTable == CallStaticHistorical

SpecTable == InitTable /\ [][NextTable]_vars

\* The base-year price of year in cents (0.10 dollars for 2010), and the
\* price scaled by the multiplier of the month, in hundredths of a cent.
BaseCents(year) == IF year = 2010 THEN 10 ELSE GenericBase(year) * 100
ScaledBase(year, month) == BaseCents(year) * MonthlyMultiplier(month)
IsKnownDate == <<args.month, args.day>> \in KnownDates

Matching(items) == Cardinality({i \in 1..Len(items) : items[i].matches})

\* C17: the news list has at most limit items, and it holds an item whose
\* title matches no keyword only if fewer than limit items of the feed
\* match.
C17_NewsFilteredUnlessShort ==
    (scope = "main" /\ "bitcoin_news" \in DOMAIN data) =>
        \A i \in Requests(NewsSite) :
            LET items == IF log[i].end = "parse" THEN FeedItems(log[i].body)
                         ELSE << >>
                news_items == data["bitcoin_news"]
            IN  /\ Len(news_items) <= news_limit
                /\ \A k \in 1..Len(news_items) :
                      ~news_items[k].matches => Matching(items) < news_limit

\* ================================================================== signals
\* ReportGenerator._calculate_signals.  A number of the snapshot is an
\* optional integer or an optional quotient; "x or 0" and the tests
\* "if x" take None and zero alike.
\* "x or 0" for an optional integer
OrZero(x) == IF x = None THEN 0 ELSE Val(x)
\* whether an optional quotient is truthy
TruthyRatio(x) == x # None /\ Val(x).n # 0
\* q1 > q2 for quotients with positive denominators
RatioGreater(q1, q2) == q1.n * q2.d > q2.n * q1.d
\* An exact decimal threshold, e.g. 1.5 as Ratio(15, 10).
Decimal(tenths) == Ratio(tenths, 10)

\* history.get("moving_averages", {}) if history else {}
MovingAveragesOf(history) ==
    IF history = EmptyDict THEN EmptyDict
    ELSE Get(history, "moving_averages", EmptyDict)
\* ma_data.get(key): the current mean of the key, None where the record of
\* moving averages is missing or holds None.
MaCurrent(ma_data, key) ==
    IF ma_data = EmptyDict THEN None ELSE Get(ma_data.currents, key, None)

Signal(status, label) == [status |-> status, label |-> label]
Neutral == Signal("neutral", "N/A")

\* price = bitcoin.get("price_usd", 0) or 0
SignalPrice(d) == OrZero(Get(Get(d, "bitcoin", EmptyDict), "price_usd", Some(0)))
\* sma_50 = ma_data_200.get("sma_50_current")
\*          or ma_data_90.get("sma_50_current", 0) or 0
Sma50(d) ==
    LET ma_data_200 == MovingAveragesOf(Get(d, "price_history_200d", EmptyDict))
        ma_data_90 == MovingAveragesOf(Get(d, "price_history_90d", EmptyDict))
        long == MaCurrent(ma_data_200, "sma_50_current")
        short == MaCurrent(ma_data_90, "sma_50_current")
    IN  IF TruthyRatio(long) THEN Val(long)
        ELSE IF TruthyRatio(short) THEN Val(short) ELSE Ratio(0, 1)
\* sma_200 = ma_data_200.get("sma_200_current", 0) or 0
Sma200(d) ==
    LET ma_data_200 == MovingAveragesOf(Get(d, "price_history_200d", EmptyDict))
        long == MaCurrent(ma_data_200, "sma_200_current")
    IN  IF TruthyRatio(long) THEN Val(long) ELSE Ratio(0, 1)

\* A trend that is bullish from equality on.
TrendSignal_inclusive(price, sma, above, below) ==
    IF price # 0 /\ sma.n # 0
    THEN IF ~RatioGreater(sma, Ratio(price, 1))
         THEN Signal("bullish", above) ELSE Signal("bearish", below)
    ELSE Neutral
\* "if price and sma: if price > sma: bullish else: bearish; else: neutral"
TrendSignal(price, sma, above, below) ==
    IF price # 0 /\ sma.n # 0
    THEN IF RatioGreater(Ratio(price, 1), sma)
         THEN Signal("bullish", above) ELSE Signal("bearish", below)
    ELSE Neutral

\* A cross that takes a missing 200-day mean for a mean of zero.
CrossSignal_lenient(sma_50, sma_200) ==
    IF sma_50.n # 0
    THEN IF RatioGreater(sma_50, sma_200)
         THEN Signal("bullish", "Golden Cross")
         ELSE Signal("bearish", "Death Cross")
    ELSE Neutral
\* "if sma_50 and sma_200: if sma_50 > sma_200: Golden Cross else: Death
\* Cross; else: neutral"
CrossSignal(sma_50, sma_200) ==
    IF sma_50.n # 0 /\ sma_200.n # 0
    THEN IF RatioGreater(sma_50, sma_200)
         THEN Signal("bullish", "Golden Cross")
         ELSE Signal("bearish", "Death Cross")
    ELSE Neutral

\* vol_ratio = current_vol / avg_vol with current_vol = volume_24h_usd or 0
\* and avg_vol = avg_volume or 1
VolRatio(d) ==
    LET current_vol == OrZero(Get(Get(d, "bitcoin", EmptyDict),
                                  "volume_24h_usd", Some(0)))
        avg == Get(Get(d, "price_history_30d", EmptyDict), "avg_volume", None)
        avg_vol == IF TruthyRatio(avg) THEN Val(avg) ELSE Ratio(1, 1)
    IN  Ratio(current_vol * avg_vol.d, avg_vol.n)
\* A volume signal whose thresholds are inclusive.
VolumeSignal_inclusive(vol_ratio) ==
    IF ~RatioGreater(Decimal(15), vol_ratio)
    THEN Signal("high", "High Volume") @@ [ratio |-> vol_ratio]
    ELSE IF ~RatioGreater(vol_ratio, Decimal(7))
    THEN Signal("low", "Low Volume") @@ [ratio |-> vol_ratio]
    ELSE Signal("normal", "Normal Volume") @@ [ratio |-> vol_ratio]
\* "if vol_ratio > 1.5: high elif vol_ratio < 0.7: low else: normal"
VolumeSignal(vol_ratio) ==
    IF RatioGreater(vol_ratio, Decimal(15))
    THEN Signal("high", "High Volume") @@ [ratio |-> vol_ratio]
    ELSE IF RatioGreater(Decimal(7), vol_ratio)
    THEN Signal("low", "Low Volume") @@ [ratio |-> vol_ratio]
    ELSE Signal("normal", "Normal Volume") @@ [ratio |-> vol_ratio]

\* fee_fastest = block_stats.get("fee_fastest", 0) or 0, and its signal
MempoolSignal(d) ==
    LET fee_fastest == OrZero(Get(Get(d, "block_stats", EmptyDict),
                                  "fee_fastest", Some(0)))
    IN  IF fee_fastest > 50 THEN Signal("congested", "Congested")
        ELSE IF fee_fastest > 20 THEN Signal("moderate", "Moderate Fees")
        ELSE Signal("clear", "Clear")

\* hr_change = (hr_current - hr_avg) / hr_avg * 100 with hr_current =
\* hash_rate_current or 0 and hr_avg = hash_rate_30d_avg or 1
HashRateChange(d) ==
    LET blockchain == Get(d, "blockchain", EmptyDict)
        hr_current == OrZero(Get(blockchain, "hash_rate_current", Some(0)))
        avg == Get(blockchain, "hash_rate_30d_avg", None)
        hr_avg == IF TruthyRatio(avg) THEN Val(avg) ELSE Ratio(1, 1)
    IN  Ratio((hr_current * hr_avg.d - hr_avg.n) * 100, hr_avg.n)
\* A hash-rate signal whose thresholds are inclusive.
HashRateSignal_inclusive(hr_change) ==
    IF ~RatioGreater(Ratio(5, 1), hr_change)
    THEN Signal("rising", "Rising") @@ [change |-> hr_change]
    ELSE IF ~RatioGreater(hr_change, Ratio(-5, 1))
    THEN Signal("falling", "Falling") @@ [change |-> hr_change]
    ELSE Signal("stable", "Stable") @@ [change |-> hr_change]
\* "if hr_change > 5: rising elif hr_change < -5: falling else: stable"
HashRateSignal(hr_change) ==
    IF RatioGreater(hr_change, Ratio(5, 1))
    THEN Signal("rising", "Rising") @@ [change |-> hr_change]
    ELSE IF RatioGreater(Ratio(-5, 1), hr_change)
    THEN Signal("falling", "Falling") @@ [change |-> hr_change]
    ELSE Signal("stable", "Stable") @@ [change |-> hr_change]

\* btc_dom = market_data.get("btc_dominance", 0) or 0, and its signal (the
\* label without the number it quotes)
DominanceSignal(d) ==
    LET btc_dom == OrZero(Get(Get(d, "market_data", EmptyDict),
                              "btc_dominance", Some(0)))
    IN  IF btc_dom > 55 THEN Signal("strong", "Dominant")
        ELSE IF btc_dom > 45 THEN Signal("moderate", "")
        ELSE Signal("weak", "Low")

\* ReportGenerator._calculate_signals(data)
_calculate_signals(d) ==
    [ma50_trend |-> TrendSignal(SignalPrice(d), Sma50(d),
                                "Above 50D MA", "Below 50D MA"),
     ma200_trend |-> TrendSignal(SignalPrice(d), Sma200(d),
                                 "Above 200D MA", "Below 200D MA"),
     cross |-> CrossSignal(Sma50(d), Sma200(d)),
     volume |-> VolumeSignal(VolRatio(d)),
     mempool |-> MempoolSignal(d),
     hash_rate |-> HashRateSignal(HashRateChange(d)),
     dominance |-> DominanceSignal(d)]

\* ------------------------------------------- _calculate_signals on its own
\* The snapshot _calculate_signals is called with is built from what the
\* fetch layer returns: price records, history records of price and volume
\* series, and the records of the other adapters.
\* A price record with the given price_usd and volume_24h_usd, each None or
\* a number; keys tells which of the two keys the record has.
BitcoinRecord(keys, price, volume) ==
    [k \in keys |-> IF k = "price_usd" THEN price ELSE volume]
\* The history record of a window of n prices on the given course; every
\* day has the given volume, and there are no volumes where it is None.
WindowRecord(days, course, n, volume) ==
    HistoryRecord(days, PriceSeries(course, n),
                  IF volume = None THEN << >> ELSE [i \in 1..n |-> Val(volume)])
\* The records of the other adapters, absent or as in a nominal run.
OtherRecords(present) ==
    IF present
    THEN [blockchain |-> [hash_rate_current |-> Some(130),
                          hash_rate_30d_avg |-> Some(Ratio(3465, 30))],
          block_stats |-> [fee_fastest |-> Some(12)],
          market_data |-> [btc_dominance |-> Some(57)]]
    ELSE [blockchain |-> EmptyDict, block_stats |-> EmptyDict,
          market_data |-> EmptyDict]

\* An on-chain record with the given hash_rate_current and hash_rate_30d_avg;
\* keys tells which of the two keys the record has (fetch_blockchain_stats
\* sets both or neither).
BlockchainRecord(keys, current, avg) ==
    [k \in keys |-> IF k = "hash_rate_current" THEN current ELSE avg]
HashKeys == {"hash_rate_current", "hash_rate_30d_avg"}
HashRates == {None, Some(0), Some(94), Some(95), Some(96), Some(100),
              Some(104), Some(105), Some(106), Some(130)}
HashAverages == {None, Some(Ratio(0, 30)), Some(Ratio(3000, 30)),
                 Some(Ratio(3465, 30))}
\* The on-chain records the hash-rate signal is computed from.
HashCases ==
    {BlockchainRecord(in.keys, in.current, in.avg) :
        in \in [keys : {HashKeys, {}}, current : HashRates, avg : HashAverages]}

SignalPrices == {None, Some(0), Some(99), Some(100), Some(101), Some(2000)}
SignalVolumes == {None, Some(0), Some(6), Some(7), Some(8), Some(14), Some(15),
                  Some(16), Some(29), Some(30), Some(45), Some(63), Some(64)}
BothKeys == {"price_usd", "volume_24h_usd"}
\* The inputs: the windows vary under a nominal volume, the volumes vary
\* under nominal windows, and the hash rates vary under both; hash is None
\* where the on-chain record is that of the other records.
SignalInputs ==
    [keys : {BothKeys, {"volume_24h_usd"}},
     price : SignalPrices, volume : {Some(45)},
     n200 : {0, 49, 50, 199, 200}, course200 : {"flat", "rise", "fall", "zero"},
     n90 : {0, 49, 90}, course90 : {"rise", "fall"},
     avg : {Some(42)}, others : BOOLEAN, hash : {None}]
    \cup
    [keys : {BothKeys, {"price_usd"}},
     price : {Some(100)}, volume : SignalVolumes,
     n200 : {200}, course200 : {"rise"}, n90 : {90}, course90 : {"rise"},
     avg : {None, Some(0), Some(10), Some(42)}, others : BOOLEAN,
     hash : {None}]
    \cup
    [keys : {BothKeys},
     price : {Some(100)}, volume : {Some(45)},
     n200 : {200}, course200 : {"rise"}, n90 : {90}, course90 : {"rise"},
     avg : {Some(42)}, others : {TRUE}, hash : {Some(h) : h \in HashCases}]

\* The function f with every value computed, once.
Enumerated(f) == IF f = f THEN f ELSE f
\* The history records of the 200-day, 90-day and 30-day windows of the
\* inputs, each built once.
Windows200 == Enumerated(
    [w \in {0, 49, 50, 199, 200} \X {"flat", "rise", "fall", "zero"} |->
        WindowRecord(200, w[2], w[1], Some(40))])
Windows90 == Enumerated(
    [w \in {0, 49, 90} \X {"rise", "fall"} |->
        WindowRecord(90, w[2], w[1], Some(40))])
Windows30 == Enumerated(
    [avg \in {None, Some(0), Some(10), Some(42)} |->
        WindowRecord(30, "flat", 30, avg)])

Snapshot(in) ==
    [bitcoin |-> BitcoinRecord(in.keys, in.price, in.volume),
     price_history_200d |-> Windows200[<<in.n200, in.course200>>],
     price_history_90d |-> Windows90[<<in.n90, in.course90>>],
     price_history_30d |-> Windows30[in.avg]]
    @@ (IF in.hash = None THEN EmptyDict ELSE [blockchain |-> Val(in.hash)])
    @@ OtherRecords(in.others)

InitSignals ==
    /\ Idle
    /\ random_state = 0
    /\ phase = "called"
    /\ \E in \in SignalInputs :
         args = [fn |-> "_calculate_signals", data |-> Snapshot(in)]
    /\ data = EmptyDict

CallSignals ==
    /\ phase = "called"
    /\ args.fn = "_calculate_signals"
    /\ Returns(_calculate_signals(args.data))

NextSignals == CallSignals

SpecSignals == InitSignals /\ [][NextSignals]_vars

\* The 24h volume and the 30-day average volume of the snapshot the signals
\* were computed from, None where the snapshot holds none.
SnapshotVolume == Get(args.data["bitcoin"], "volume_24h_usd", None)
SnapshotAvgVolume == Get(args.data["price_history_30d"], "avg_volume", None)

\* C18: for a 24h volume v and a positive 30-day average a the volume signal
\* is "high" exactly when v / a > 1.5, "low" exactly when v / a < 0.7, and
\* "normal" otherwise.
C18_VolumeThresholdsAreStrict ==
    (/\ Returned("_calculate_signals")
     /\ SnapshotVolume # None
     /\ SnapshotAvgVolume # None /\ Val(SnapshotAvgVolume).n > 0) =>
        LET v == Val(SnapshotVolume)
            a == Val(SnapshotAvgVolume)
            status == data.volume.status
        IN  /\ status = "high" <=> 10 * v * a.d > 15 * a.n
            /\ status = "low" <=> 10 * v * a.d < 7 * a.n
            /\ status = "normal" <=>
                  (10 * v * a.d <= 15 * a.n /\ 10 * v * a.d >= 7 * a.n)

\* The signals of a 24h volume of 15 under an average of 10 were computed: a
\* ratio of exactly 1.5, reported as normal.
C18_Witness ==
    /\ Returned("_calculate_signals")
    /\ SnapshotVolume = Some(15)
    /\ SnapshotAvgVolume = Some(Ratio(300, 30))
    /\ data.volume.status = "normal"

\* The price and the current means of the snapshot the signals were
\* computed from.  A value is available when the snapshot holds a number
\* for it that is not zero; the pipeline writes a missing number as 0.
SnapshotPrice == Get(args.data["bitcoin"], "price_usd", None)
WindowMean(window, key) ==
    IF args.data[window] = EmptyDict THEN None
    ELSE args.data[window]["moving_averages"].currents[key]
Available(x) == x # None /\ Val(x) # 0
AvailableMean(m) == m # None /\ Val(m).n # 0
\* The 50-day mean the signals are to use: that of the 200-day window, and
\* that of the 90-day window only when the former is unavailable.
Mean50 ==
    IF AvailableMean(WindowMean("price_history_200d", "sma_50_current"))
    THEN WindowMean("price_history_200d", "sma_50_current")
    ELSE WindowMean("price_history_90d", "sma_50_current")
Mean200 == WindowMean("price_history_200d", "sma_200_current")
\* What C19 says of one trend signal, given the mean it is to use.
TrendIs(signal, mean) ==
    IF Available(SnapshotPrice) /\ AvailableMean(mean)
    THEN IF Val(SnapshotPrice) * Val(mean).d > Val(mean).n
         THEN signal.status = "bullish"
         ELSE signal.status = "bearish"
    ELSE signal.status = "neutral" /\ signal.label = "N/A"

\* C19: each of the MA50 and MA200 trend signals is bullish when price and
\* mean are available and price > mean, bearish when they are available and
\* price <= mean, neutral with label "N/A" when either is missing; MA200
\* uses the 200-day window's SMA200, MA50 the 200-day window's SMA50 and the
\* 90-day window's only when the former is unavailable.
C19_TrendSignals ==
    Returned("_calculate_signals") =>
        /\ TrendIs(data.ma50_trend, Mean50)
        /\ TrendIs(data.ma200_trend, Mean200)

\* The signals of a price of 100 were computed from a 200-day window whose
\* 200-day mean is 100 as well: price equals mean, and both trends are
\* bearish.
C19_Witness ==
    /\ Returned("_calculate_signals")
    /\ SnapshotPrice = Some(100)
    /\ Mean200 = Some(Ratio(20000, 200))
    /\ data.ma200_trend.status = "bearish"
    /\ data.ma50_trend.status = "bearish"

\* C20: the cross signal is "Golden Cross" when SMA50 and SMA200 are both
\* available and SMA50 > SMA200, "Death Cross" when both are available and
\* SMA50 <= SMA200, neutral when either is missing: so it is neutral when the
\* 200-day record is empty or has fewer than 200 points, even where the
\* 90-day window supplies an SMA50.
C20_CrossSignal ==
    Returned("_calculate_signals") =>
        /\ IF AvailableMean(Mean50) /\ AvailableMean(Mean200)
           THEN IF Val(Mean50).n * Val(Mean200).d > Val(Mean200).n * Val(Mean50).d
                THEN data.cross.status = "bullish" /\ data.cross.label = "Golden Cross"
                ELSE data.cross.status = "bearish" /\ data.cross.label = "Death Cross"
           ELSE data.cross.status = "neutral"
        /\ (\/ args.data["price_history_200d"] = EmptyDict
            \/ Len(args.data["price_history_200d"]["full_price_data"]) < 200) =>
              data.cross.status = "neutral"

\* The signals were computed for an empty 200-day record and a 90-day window
\* that supplies an SMA50: MA50 has a trend and the cross is neutral.
C20_Witness ==
    /\ Returned("_calculate_signals")
    /\ args.data["price_history_200d"] = EmptyDict
    /\ AvailableMean(WindowMean("price_history_90d", "sma_50_current"))
    /\ data.ma50_trend.status = "bullish"
    /\ data.cross.status = "neutral"

\* The current hash rate and its 30-day average in the snapshot the signals
\* were computed from, None where the snapshot holds none.
SnapshotHashRate == Get(args.data["blockchain"], "hash_rate_current", None)
SnapshotHashAvg == Get(args.data["blockchain"], "hash_rate_30d_avg", None)

C28_NoAverageMeansNormalVolume ==
    (/\ Returned("_calculate_signals")
     /\ ~TruthyRatio(SnapshotAvgVolume)) =>
        /\ data.volume.status = "normal"
        /\ data.volume.ratio.n = data.volume.ratio.d

\* C29: when hash_rate_current and hash_rate_30d_avg are both missing from
\* the snapshot the hash-rate signal is "stable" with no deviation; it is
\* never "rising" or "falling" when the 30-day average is missing.
C29_NoHashRateMeansStable ==
    Returned("_calculate_signals") =>
        /\ (DOMAIN args.data["blockchain"]) \cap HashKeys = {} =>
              /\ data.hash_rate.status = "stable"
              /\ data.hash_rate.change.n = 0
        /\ SnapshotHashAvg = None =>
              data.hash_rate.status \notin {"rising", "falling"}


\* --------------------------------------- calculate_supply_stats on its own
\* The price records: price_usd and circulating_supply each absent (None),
\* or present (Some) with the value null or a number.
SupplyPrices == {None, Some(None), Some(Some(0)), Some(Some(1)), Some(Some(3)),
                 Some(Some(7)), Some(Some(95000)), Some(Some(50000000))}
SupplyCirculatings == {None, Some(None), Some(Some(0)), Some(Some(19800000)),
                       Some(Some(max_supply))}
SupplyRecord(price, circulating) ==
    (IF price = None THEN EmptyDict ELSE [price_usd |-> Val(price)])
    @@ (IF circulating = None THEN EmptyDict
        ELSE [circulating_supply |-> Val(circulating)])
\* The block records: empty, or with the reward of the current era.
SupplyBlockRecords == {EmptyDict, [block_reward |-> Some(Ratio(25, 8))]}

InitSupply ==
    /\ Idle
    /\ random_state = 0
    /\ phase = "called"
    /\ \E price \in SupplyPrices, circulating \in SupplyCirculatings,
          block_stats \in SupplyBlockRecords :
         args = [fn |-> "calculate_supply_stats",
                 bitcoin_data |-> SupplyRecord(price, circulating),
                 block_stats |-> block_stats]
    /\ data = EmptyDict

\* calculate_supply_stats(bitcoin_data, block_stats) returns or raises.
CallSupplyStats ==
    /\ phase = "called"
    /\ args.fn = "calculate_supply_stats"
    /\ IF SupplyRaises(args.bitcoin_data)
       THEN /\ raised' = args.fn
            /\ phase' = "returned"
            /\ UNCHANGED <<scope, args, today, step, sub, attempt, stats, data,
                           clock, log, steps, devs, exit_code, report,
                           random_state>>
       ELSE /\ Returns(SupplyStats(args.bitcoin_data, args.block_stats))

NextSupply == CallSupplyStats

SpecSupply == InitSupply /\ [][NextSupply]_vars

\* C22: for every price record and block record calculate_supply_stats
\* returns remaining_to_mine = 21,000,000 - circulating, percent_mined =
\* circulating / 21,000,000 * 100, and sats_per_dollar exactly when price > 0,
\* where it equals 100,000,000 / price.
C22_SupplyStatsFormulas ==
    Returned("calculate_supply_stats") =>
        /\ raised = ""
        /\ LET circulating == Val(data.circulating_supply)
               price == Val(SupplyPrice(args.bitcoin_data))
               percent == Val(data.percent_mined)
           IN  /\ Val(data.remaining_to_mine) = max_supply - circulating
               /\ circulating + Val(data.remaining_to_mine) = max_supply
               /\ Lowest(percent) = Lowest(Ratio(circulating * 100, max_supply))
               /\ "sats_per_dollar" \in DOMAIN data <=> price > 0
               /\ price > 0 => Val(data.sats_per_dollar) * price = SATS_PER_BTC


\* ------------------------------ fetch_blockchain_stats: the difficulty chart
\* The difficulty series the chart provider answers with: n points, of which
\* the last and, from 30 points on, the 30th from the end take the given
\* values; a point is None where it has no "y".
DifficultyLengths == {1, 29, 30, 31, 45, 60}
DifficultyReferences == {None, Some(-5), Some(0), Some(1), Some(50), Some(100)}
DifficultyLasts == {None, Some(0), Some(110)}
DifficultySeries(n, ref, last) ==
    [i \in 1..n |-> IF i = n THEN last
                    ELSE IF i = n - 29 THEN ref ELSE Some(100 + i)]

\* fetch_blockchain_stats is called; the hash-rate chart and the transaction
\* chart answer with their 30 points, the difficulty chart with args.values.
InitDifficulty ==
    /\ Idle
    /\ random_state = 0
    /\ phase = "called"
    /\ \E n \in DifficultyLengths, ref \in DifficultyReferences,
          last \in DifficultyLasts :
         args = [fn |-> "fetch_blockchain_stats",
                 values |-> DifficultySeries(n, ref, last)]
    /\ data = EmptyDict

\* fetch_blockchain_stats returns its record, or the division raises.
CallBlockchainStats ==
    /\ phase = "called"
    /\ args.fn = "fetch_blockchain_stats"
    /\ IF DifficultyRaises(args.values)
       THEN /\ raised' = args.fn
            /\ phase' = "returned"
            /\ UNCHANGED <<scope, args, today, step, sub, attempt, stats, data,
                           clock, log, steps, devs, exit_code, report,
                           random_state>>
       ELSE /\ Returns(BlockchainStatsFields(3, args.values)
                       @@ BlockchainStatsFields(2, ChartValues("ok", 30))
                       @@ BlockchainStatsFields(1, ChartValues("ok", 30)))

NextDifficulty == CallBlockchainStats

SpecDifficulty == InitDifficulty /\ [][NextDifficulty]_vars

\* C23: for a difficulty series of at least 30 points difficulty_30d_change
\* is the percent change from the point 30 back to the last point, and a
\* reference value that is zero, negative or missing is replaced by a
\* denominator of 1: a zero reference never makes the adapter fail.
C23_DifficultyChangeGuarded ==
    (Returned("fetch_blockchain_stats") /\ Len(args.values) >= 30) =>
        /\ raised = ""
        /\ LET values == args.values
               ref == values[Len(values) - 29]
               last == IF LastY(values) = None THEN 0 ELSE Val(LastY(values))
               from == IF ref = None THEN 1 ELSE Val(ref)
               denominator == IF ref = None \/ Val(ref) <= 0 THEN 1 ELSE Val(ref)
               change == Val(data.difficulty_30d_change)
           IN  change.n * denominator = (last - from) * 100 * change.d


\* ------------------------------------------------ the retry wrapper (C24)
\* C24: whatever the attempts of one call of _request_with_retry are
\* answered with, at most max_retries requests are made, each after a call
\* of the rate limiter, and the call ends in one of three ways: it returns
\* the first response whose status is not 429 (an error status such as 500
\* included, which is not retried), it returns no response after a third
\* 429, or it re-raises the exception of the third attempt.  Until then
\* fewer than max_retries requests were made and the next one can be.
C24_RetryBoundedOutcome ==
    /\ Len(log) <= max_retries
    /\ \A i \in 1..Len(log) :
          /\ log[i].attempt = i - 1
          /\ log[i].limited
          /\ (i < Len(log) \/ phase = "fetch") =>
                log[i].end = "retry" /\ log[i].status \in {0, 429}
    /\ phase = "fetch" => Len(log) < max_retries /\ ENABLED NextRetry
    /\ phase # "fetch" =>
          /\ Len(log) >= 1
          /\ LET last == log[Len(log)]
             IN  CASE last.status = 429 ->
                        last.end = "none" /\ Len(log) = max_retries
                   [] last.status = 0 ->
                        last.end = "raise" /\ Len(log) = max_retries
                   [] OTHER -> last.end = "response"

\* A call whose attempts met an exception, then 429, then 500: the wrapper
\* returned the response of status 500 at its third request.
C24_Witness ==
    /\ phase = "returned"
    /\ Len(log) = max_retries
    /\ log[1].status = 0 /\ log[2].status = 429 /\ log[3].status = 500
    /\ log[3].end = "response"


\* ------------------------------ fetch_historical_year_price_data on its own
\* The adapter is called on a fresh DataFetcher, on any date of CallDates,
\* and each of its live calls is answered in any way.
InitYearly ==
    /\ scope = "call"
    /\ args = [fast |-> FALSE, use_ai |-> FALSE]
    /\ today = NoDate
    /\ phase = "fetch" /\ step = Len(LiveSteps) + 2 /\ sub = 1 /\ attempt = 0
    /\ stats = EmptyDict
    /\ data = EmptyDict
    /\ clock = [elapsed |-> API_DELAY_SECONDS, gap |-> API_DELAY_SECONDS,
                limited |-> FALSE]
    /\ log = << >>
    /\ steps = <<HistoricalSteps[2]>>
    /\ devs = 0
    /\ raised = "" /\ exit_code = -1 /\ report = "none"
    /\ random_state = 0

NextYearly == fetch_historical_year_price_data

SpecYearly == InitYearly /\ [][NextYearly]_vars

\* C25: on every valid calendar date, 29 February included, and whatever
\* the live calls answer, fetch_historical_year_price_data returns a mapping
\* and raises nothing: building the static yearly series never fails.
C25_YearlyDataNeverRaises ==
    /\ raised = ""
    /\ phase = "returned" => "historical_yearly_data" \in DOMAIN data


\* What C27 says of the result of fetch_historical_year_price_data for the
\* year of its i-th live call, log[i]: the live series when the call was
\* answered 200 with prices, else the static series of the year where there
\* is one, else nothing.
YearResultIs(result, i) ==
    LET year == today[1] - i
        live == LiveYearSeries(log[i].body, year, today[2], today[3], SERIES_DAYS)
        static == _get_static_yearly_price_history(0, today[2], today[3]).data
    IN  /\ log[i].limited
        /\ IF log[i].status = 200 /\ live # << >>
           THEN year \in DOMAIN result /\ result[year] = live
           ELSE IF year \in DOMAIN static
           THEN year \in DOMAIN result /\ result[year] = static[year]
           ELSE year \notin DOMAIN result

\* C27: for each of the years_back prior years independently, the rate
\* limiter is invoked once before the live call, and the result for the
\* year is the live series if the call returned 200 with a non-empty price
\* list, otherwise the static series if one exists for the year, otherwise
\* the year is absent; a failure for one year does not change the result
\* for any other year.
C27_EachYearOnItsOwn ==
    /\ raised = ""
    /\ phase = "returned" =>
          /\ Len(log) = years_back
          /\ \A i \in 1..years_back :
                YearResultIs(data["historical_yearly_data"], i)


\* The date b is the day after the date a.
IsNextDay(a, b) ==
    \/ b = <<a[1], a[2], a[3] + 1>> /\ a[3] < DaysIn(a[1], a[2])
    \/ b = <<a[1], a[2] + 1, 1>> /\ a[3] = DaysIn(a[1], a[2]) /\ a[2] < 12
    \/ b = <<a[1] + 1, 1, 1>> /\ a[2] = 12 /\ a[3] = 31
\* The series _get_static_yearly_price_history has returned so far.
StaticSeriesReturned ==
    IF args.fn = "_get_static_yearly_price_history"
    THEN {<<year, data[k][year]>> : year \in RANGE_YEARS, k \in 1..Len(data)}
    ELSE {}

\* C26: every series _get_static_yearly_price_history produces for a year
\* has exactly 30 points, every price lies in the range configured for the
\* year and the month, and the dates are 30 consecutive days in increasing
\* order that end on (year, month, day).
C26_SeriesInRangeAndConsecutive ==
    \A ys \in StaticSeriesReturned :
        LET year == ys[1]
            series == ys[2]
            low == PriceRanges(year)[args.month][1]
            high == PriceRanges(year)[args.month][2]
        IN  /\ Len(series) = 30
            /\ \A i \in 1..Len(series) :
                  low <= series[i].price /\ series[i].price <= high
            /\ series[Len(series)].date = <<year, args.month, args.day>>
            /\ \A i \in 1..(Len(series) - 1) :
                  IsNextDay(series[i].date, series[i + 1].date)

\* The series were produced for 1 March: that of 2024 starts on 1 February
\* and passes 29 February, and the walk of one of the years has been held
\* at an end of its range.
C26_Witness ==
    /\ args.fn = "_get_static_yearly_price_history"
    /\ args.month = 3 /\ args.day = 1
    /\ Len(data) >= 1
    /\ data[1][2024][1].date = <<2024, 2, 1>>
    /\ data[1][2024][29].date = <<2024, 2, 29>>
    /\ \E year \in RANGE_YEARS, i \in 1..30 :
          data[1][year][i].price \in {PriceRanges(year)[3][1],
                                      PriceRanges(year)[3][2]}


\* ------------------------- fetch_onchain_analytics: the active addresses
\* The active-address series the chart provider answers with: n points on a
\* course; a point is None where it has no "y".
AddressLengths == (1..12) \cup {30}
AddressCourses == {"flat", "rise", "fall", "zero", "gap"}
AddressSeries(course, n) ==
    [i \in 1..n |->
        CASE course = "flat" -> Some(700)
          [] course = "rise" -> Some(700 + 7 * i)
          [] course = "fall" -> Some(1400 - 14 * i)
          [] course = "zero" -> Some(0)
          [] course = "gap" -> IF i = n THEN None ELSE Some(700 + i)]

\* fetch_onchain_analytics is called; the active-address chart answers with
\* args.values, the other three calls as in a nominal run.
InitOnchain ==
    /\ Idle
    /\ random_state = 0
    /\ phase = "called"
    /\ \E course \in AddressCourses, n \in AddressLengths :
         args = [fn |-> "fetch_onchain_analytics",
                 values |-> AddressSeries(course, n)]
    /\ data = EmptyDict

CallOnchainAnalytics ==
    /\ phase = "called"
    /\ args.fn = "fetch_onchain_analytics"
    /\ Returns(OnchainFields(4, "ok") @@ OnchainFields(3, "ok")
               @@ OnchainFields(2, "ok") @@ ActiveAddressFields(args.values))

NextOnchain == CallOnchainAnalytics

SpecOnchain == InitOnchain /\ [][NextOnchain]_vars

\* C30: for every non-empty active-address series of n points, also when n
\* is less than 7, active_addresses_7d_avg is the arithmetic mean of the
\* most recent min(7, n) points and active_addresses_30d_avg the arithmetic
\* mean of all n points.
C30_ActiveAddressAverages ==
    Returned("fetch_onchain_analytics") =>
        LET values == args.values
            n == Len(values)
            recent == Min(7, n)
            y(i) == IF values[i] = None THEN 0 ELSE Val(values[i])
            sum_recent == SumSeq([i \in 1..recent |-> y(n - recent + i)])
            sum_all == SumSeq([i \in 1..n |-> y(i)])
            avg_7d == Val(data.active_addresses_7d_avg)
            avg_30d == Val(data.active_addresses_30d_avg)
        IN  /\ avg_7d.n * recent = sum_recent * avg_7d.d
            /\ avg_30d.n * n = sum_all * avg_30d.d

====
